---- MODULE Spec2Model ----
(***************************************************************************)
(* Bar-driven position / capital-unit state machine of the Nifty options   *)
(* paper-trading bot, in its three drivers:                                *)
(*   - the live engine        Bot._bar / Bot._exit / Bot._entry  (bot.py)  *)
(*   - the integrated backtest run_backtest                      (bot.py)  *)
(*   - the stand-alone backtest Backtester.run                (backtest.py)*)
(*                                                                         *)
(* Units of measure.  Python computes in binary floating point; the model  *)
(* computes the same formulas exactly in fixed point:                      *)
(*   spot     whole rupees                                                 *)
(*   premium  PU = 1/100000 rupee (every premium the code produces at the  *)
(*            spot levels of the model is a whole number of PU)            *)
(*   money    paise (calc_pnl rounds to 2 decimals)                        *)
(*   fractions of the configuration are given in hundredths (30 = 0.30)    *)
(* TLC integers are 32 bit, so products are split where they would exceed  *)
(* 2^31.                                                                   *)
(***************************************************************************)
EXTENDS Integers, Sequences, FiniteSets, TLC

(***************************************************************************)
(* Configuration of bot.py (lines 45-78)                                   *)
(***************************************************************************)
TOTAL_CAPITAL       == 100000
NUM_UNITS           == 5
UNIT_SIZE           == 20000
SL_PCT              == 30
TP_PCT              == 60
TIME_EXIT_BARS      == 8
MIN_HOLD_BARS       == 2
MAX_COST_PCT        == 65
MAX_LOTS            == 2
LOT_SIZE            == 65
MAX_TRADES_PER_DAY  == 3
MAX_PORT_DD_MONTHLY == 8
MAX_PORT_DD_DAILY   == 5
MAX_UNIT_DD_DAILY   == 12
LOSS_STREAK_LIMIT   == 2
COOLDOWN_BARS       == 4
ENTRY_START         == 9 * 60 + 30
ENTRY_END           == 14 * 60 + 15
HARD_CLOSE          == 15 * 60 + 5

(***************************************************************************)
(* Configuration of config.py, used by backtest.py, strategy.py, units.py  *)
(***************************************************************************)
config_TOTAL_CAPITAL     == 100000
config_NUM_UNITS         == 5
config_UNIT_SIZE         == 20000
config_ENTRY_START       == 9 * 60 + 30
config_ENTRY_END         == 14 * 60 + 15
config_HARD_CLOSE        == 15 * 60 + 10
config_SIGNAL_COOLDOWN   == 4
config_MAX_COST_PCT      == 55
config_MAX_LOTS          == 1
config_LOT_SIZE          == 75
config_SL_DROP_PCT       == 25
config_TP_GAIN_PCT       == 50
config_TIME_EXIT_BARS    == 6
config_MIN_HOLD_BARS     == 1
config_MAX_PORT_DD       == 10
config_MAX_UNIT_DAY_LOSS == 15
config_MAX_PORT_DAY_LOSS == 5
config_LOSS_STREAK_MAX   == 2
config_COOLDOWN_BARS     == 4

UnitIds == 0 .. (NUM_UNITS - 1)

(***************************************************************************)
(* Arithmetic helpers                                                      *)
(***************************************************************************)
Max(a, b) == IF a >= b THEN a ELSE b
Min(a, b) == IF a <= b THEN a ELSE b

\* n / d rounded to the nearest integer (d > 0), the rounding of round()
RoundDiv(n, d) == (2 * n + d) \div (2 * d)

\* n / d rounded to the nearest integer, an exact half going down: the
\* doubles that bot.py and strategy.py hand to round(x, 2) lie just below the
\* half-paisa wherever the premiums of this model produce one
RoundHalfDown(n, d) == (2 * n + d - 1) \div (2 * d)

\* least integer >= n / d  (d > 0)
CeilDiv(n, d) == (n + d - 1) \div d

\* sum of f[i] over the finite integer-indexed domain of f
RECURSIVE SumOver(_, _)
SumOver(f, S) ==
    IF S = {} THEN 0
    ELSE LET i == CHOOSE j \in S : TRUE
         IN  f[i] + SumOver(f, S \ {i})

PaisePerRupee == 100
PUPerRupee    == 100000
PUPerPaise    == PUPerRupee \div PaisePerRupee
Rupees(r)     == r * PaisePerRupee


(***************************************************************************)
(* Bounds of the model                                                     *)
(***************************************************************************)
\* day changes a run may see; a run starts on date 0 or on date 1 (dates
\* are ordinals)
MaxDay == 1
Days   == 0 .. MaxDay + 1
\* model calendar: date 0 is the last day of a month, and a month has
\* MonthLen days
MonthLen == 2
MonthOf(d) == (d + MonthLen - 1) \div MonthLen

\* a timestamp is a date and a time of day in minutes; NoTs is Python's None
NoTs == [day |-> -1, hm |-> -1]

(***************************************************************************)
(* Option premium and P&L, bot.py                                          *)
(***************************************************************************)
\* iv * sqrt(5/365) * 0.3989 = 0.0070031570..., in units of 1e-7
SynthCoef == 70032

\* synth_prem(spot): Brenner premium rounded to one decimal, floored at
\* 0.2% of spot; result in PU
synth_prem(spot) ==
    LET tenths == (spot * SynthCoef + 500000) \div 1000000
    IN  Max(tenths * 10000, spot * 200)

\* mark_prem: delta = 0.50, gamma = 0.00015, theta = entry_prem * 0.0002 per
\* bar, floored at 0.5 rupee
mark_prem(entry_prem, entry_spot, cur_spot, opt_type, bars) ==
    LET sign     == IF opt_type = "CE" THEN 1 ELSE -1
        spot_chg == cur_spot - entry_spot
        prem_chg == sign * (50000 * spot_chg + (15 * spot_chg * spot_chg) \div 2)
        decay    == (entry_prem * 2 * bars) \div 10000
    IN  Max(entry_prem + prem_chg - decay, 50000)

\* max(raw - slip, -ep*lot*qty) rounded to paise, where
\*   raw - slip = lot*qty * (xp * 0.997 - ep * 1.003)
\* ep, xp in PU; the product is formed in base 1000 to stay within 32 bits
NetPnl(ep, xp, lots) ==
    LET M  == (xp \div 1000) * 997 - (ep \div 1000) * 1003
        R  == (xp % 1000) * 997 - (ep % 1000) * 1003
    IN  lots * (M \div 1000)
          + RoundHalfDown(lots * (M % 1000) * 1000 + lots * R, 1000000)

MaxLoss(ep, lots) == 0 - ((ep \div 1000) * lots + RoundDiv((ep % 1000) * lots, 1000))

\* variant: the net value without the floor
calc_pnl_unfloored(ep, xp, lot, qty) == NetPnl(ep, xp, lot * qty)

calc_pnl(ep, xp, lot, qty) ==
    Max(NetPnl(ep, xp, lot * qty), MaxLoss(ep, lot * qty))

(***************************************************************************)
(* class Unit, bot.py                                                      *)
(***************************************************************************)
NoTrade == [unit |-> -1, bars |-> 0, peak |-> 0, entry_time |-> NoTs,
            entry_spot |-> 0, entry_prem |-> 0, opt_type |-> "None",
            qty |-> 0, lot_size |-> 0]

HasTrade(u) == u.trade # NoTrade

\* Unit.__init__ with cap = None
Unit(uid) ==
    [uid |-> uid, capital |-> Rupees(UNIT_SIZE), trade |-> NoTrade,
     streak |-> 0, cooldown |-> 0, n_trades |-> 0, last_bar |-> -99,
     day_trades |-> [d \in Days |-> 0], day_pnl |-> [d \in Days |-> 0]]

\* variant: a unit without a trade counts as free while it cools down
Unit_free_in_cooldown(u) == u.trade = NoTrade

Unit_free(u) == u.trade = NoTrade /\ u.cooldown = 0

\* variant: a unit that holds a trade may enter again
Unit_can_enter_holding(u, ts, bar_idx) ==
    LET d == ts.day
    IN  /\ u.cooldown = 0
        /\ ~ (u.day_pnl[d] * 100 < 0 - Rupees(UNIT_SIZE) * MAX_UNIT_DD_DAILY)
        /\ ~ (u.day_trades[d] >= MAX_TRADES_PER_DAY)
        /\ ~ (bar_idx - u.last_bar < 1)

Unit_can_enter(u, ts, bar_idx) ==
    LET d == ts.day
    IN  /\ Unit_free(u)
        /\ ~ (u.day_pnl[d] * 100 < 0 - Rupees(UNIT_SIZE) * MAX_UNIT_DD_DAILY)
        /\ ~ (u.day_trades[d] >= MAX_TRADES_PER_DAY)
        /\ ~ (bar_idx - u.last_bar < 1)

\* variant: the entry is not counted against the day
Unit_enter_uncounted(u, t, bar_idx, ts) ==
    [u EXCEPT !.trade = t,
              !.n_trades = @ + 1,
              !.last_bar = bar_idx]

Unit_enter(u, t, bar_idx, ts) ==
    [u EXCEPT !.trade = t,
              !.n_trades = @ + 1,
              !.last_bar = bar_idx,
              !.day_trades[ts.day] = @ + 1]

\* variant: the pnl reaches the capital but not the day's pnl of the unit
Unit_close_capital_only(u, pnl, ts) ==
    LET u1 == [u EXCEPT !.capital = @ + pnl, !.trade = NoTrade]
    IN  IF pnl < 0
        THEN IF u1.streak + 1 >= LOSS_STREAK_LIMIT
             THEN [u1 EXCEPT !.cooldown = COOLDOWN_BARS, !.streak = 0]
             ELSE [u1 EXCEPT !.streak = @ + 1]
        ELSE [u1 EXCEPT !.streak = 0]

Unit_close(u, pnl, ts) ==
    LET u1 == [u EXCEPT !.capital = @ + pnl,
                        !.day_pnl[ts.day] = @ + pnl,
                        !.trade = NoTrade]
    IN  IF pnl < 0
        THEN IF u1.streak + 1 >= LOSS_STREAK_LIMIT
             THEN [u1 EXCEPT !.cooldown = COOLDOWN_BARS, !.streak = 0]
             ELSE [u1 EXCEPT !.streak = @ + 1]
        ELSE [u1 EXCEPT !.streak = 0]

\* variant: the cooldown counter is left as it is
Unit_tick_idle(u) == u

Unit_tick(u) == IF u.cooldown > 0 THEN [u EXCEPT !.cooldown = @ - 1] ELSE u

(***************************************************************************)
(* A bar as the engine reads it: timestamp, close (spot) and the value of  *)
(* get_signal(row) ("None", "CE" or "PE").  Indicator enrichment is an     *)
(* external pure function; only its result enters the decisions.           *)
(***************************************************************************)
Bar(ts, spot, sig) == [ts |-> ts, spot |-> spot, sig |-> sig]

\* is_hard_close / is_entry_win on a time of day (trading day assumed)
is_hard_close(hm) == hm >= HARD_CLOSE
is_entry_win(hm)  == ENTRY_START <= hm /\ hm <= ENTRY_END

(***************************************************************************)
(* Bot._exit (bot.py 588-621); run_backtest repeats it inline (751-779).   *)
(* Result: the unit after the tick, the closed-trade record if any, and    *)
(* the realised pnl.                                                       *)
(***************************************************************************)
\* variant: the levels are tested from the first tick on
ExitReason_no_min_hold(t, bh, cp, peak, eod) ==
    LET sl_lvl == (t.entry_prem \div 100) * (100 - SL_PCT)
        tp_lvl == (t.entry_prem \div 100) * (100 + TP_PCT)
        armed  == peak >= (t.entry_prem \div 100) * 140
    IN  IF eod THEN "EOD"
        ELSE IF cp <= sl_lvl THEN "SL"
        ELSE IF cp >= tp_lvl THEN "TP"
        ELSE IF armed /\ cp * 4 < peak * 3 THEN "TRAIL"
        ELSE IF bh >= TIME_EXIT_BARS THEN "TIME"
        ELSE "None"

\* the reason chosen at bot.py 603-610
ExitReason(t, bh, cp, peak, eod) ==
    LET sl_lvl == (t.entry_prem \div 100) * (100 - SL_PCT)
        tp_lvl == (t.entry_prem \div 100) * (100 + TP_PCT)
        armed  == peak >= (t.entry_prem \div 100) * 140
    IN  IF eod THEN "EOD"
        ELSE IF bh >= MIN_HOLD_BARS
             THEN IF cp <= sl_lvl THEN "SL"
                  ELSE IF cp >= tp_lvl THEN "TP"
                  ELSE IF armed /\ cp * 4 < peak * 3 THEN "TRAIL"
                  ELSE IF bh >= TIME_EXIT_BARS THEN "TIME"
                  ELSE "None"
             ELSE "None"

\* variant: the record takes the count after the increment
ExitRecord_after_increment(t, ts, spot, cp, bh, pnl, reason) ==
    [trade |-> t, exit_time |-> ts, exit_spot |-> spot, exit_prem |-> cp,
     bars_held |-> t.bars, pnl |-> pnl, reason |-> reason]

\* rec = {**t, "exit_time", "exit_spot", "exit_prem", "bars_held": bh, ...}
ExitRecord(t, ts, spot, cp, bh, pnl, reason) ==
    [trade |-> t, exit_time |-> ts, exit_spot |-> spot, exit_prem |-> cp,
     bars_held |-> bh, pnl |-> pnl, reason |-> reason]

Bot_exit(u, ts, spot, eod) ==
    LET t0     == u.trade
        bh     == t0.bars
        cp     == mark_prem(t0.entry_prem, t0.entry_spot, spot, t0.opt_type, bh)
        t      == [t0 EXCEPT !.bars = bh + 1, !.peak = Max(t0.peak, cp)]
        reason == ExitReason(t, bh, cp, t.peak, eod)
        pnl    == calc_pnl(t.entry_prem, cp, t.lot_size, t.qty)
    IN  IF reason = "None"
        THEN [unit |-> [u EXCEPT !.trade = t], closed |-> << >>, pnl |-> 0]
        ELSE [unit   |-> Unit_close(u, pnl, ts),
              closed |-> << ExitRecord(t, ts, spot, cp, bh, pnl, reason) >>,
              pnl    |-> pnl]

\* the EXITS loop over self.units: a fold in unit order over the engine state
RECURSIVE ExitLoop(_, _, _, _, _)
ExitLoop(st, uid, ts, spot, eod) ==
    IF uid >= NUM_UNITS THEN st
    ELSE IF ~ HasTrade(st.units[uid])
         THEN ExitLoop(st, uid + 1, ts, spot, eod)
         ELSE LET r == Bot_exit(st.units[uid], ts, spot, eod)
                  s1 == [st EXCEPT !.units[uid] = r.unit,
                                   !.port_dpnl[ts.day] = @ + r.pnl,
                                   !.trades = @ \o r.closed]
              IN  ExitLoop(s1, uid + 1, ts, spot, eod)

(***************************************************************************)
(* Bot._entry (bot.py 634-671); run_backtest repeats it inline (783-800).  *)
(***************************************************************************)
\* ep * lot > u.capital, ep in PU, capital in paise
TooCostly(ep, lot, capital) == CeilDiv(ep * lot, PUPerPaise) > capital

\* min(MAX_LOTS, max(1, int(capital * MAX_COST_PCT / (ep * lot))));
\* (ep * lot) is a multiple of 50 PU, so the quotient below is exact
EntryQty(ep, lot, capital) ==
    Min(MAX_LOTS, Max(1, (capital * (MAX_COST_PCT \div 5)) \div ((ep * lot) \div 50)))

\* the units in scan order that pass can_enter and the cost test
Bot_entry_ok(st, uid, ts, spot) ==
    /\ Unit_can_enter(st.units[uid], ts, st.bar_idx)
    /\ ~ TooCostly(synth_prem(spot), LOT_SIZE, st.units[uid].capital)

\* variant: the pointer wraps one unit early
NextRR_short(uid) == (uid + 1) % (NUM_UNITS - 1)

\* self.rr = (uid + 1) % NUM_UNITS
NextRR(uid) == (uid + 1) % NUM_UNITS

Bot_entry(st, sig, ts, spot) ==
    LET hits == {k \in 0 .. (NUM_UNITS - 1) :
                    Bot_entry_ok(st, (st.rr + k) % NUM_UNITS, ts, spot)}
    IN  IF sig = "None" \/ hits = {} THEN st
        ELSE LET k   == CHOOSE x \in hits : \A y \in hits : x <= y
                 uid == (st.rr + k) % NUM_UNITS
                 u   == st.units[uid]
                 ep  == synth_prem(spot)
                 qty == EntryQty(ep, LOT_SIZE, u.capital)
                 trade == [unit |-> uid, bars |-> 0, peak |-> ep,
                           entry_time |-> ts, entry_spot |-> spot,
                           entry_prem |-> ep, opt_type |-> sig,
                           qty |-> qty, lot_size |-> LOT_SIZE]
             IN  [st EXCEPT !.units[uid] = Unit_enter(u, trade, st.bar_idx, ts),
                            !.rr = NextRR(uid),
                            !.entered = Append(@, [bar |-> st.bar_idx, time |-> ts,
                                                   unit |-> uid, opt_type |-> sig,
                                                   qty |-> qty, attempt |-> k])]

TotalCap(st) == SumOver([i \in UnitIds |-> st.units[i].capital], UnitIds)

(***************************************************************************)
(* Bot: state after __init__ with no state file, and Bot._bar (522-585)    *)
(* for a fetched bar b and the wall-clock reading now (time of day).       *)
(*   entered  the ENTER log lines, with the value of attempt at the entry  *)
(*   tick     the locals of the last _bar                                  *)
(***************************************************************************)
NoTick == [halted |-> FALSE, port_day_ok |-> TRUE, eod |-> FALSE, in_entry |-> FALSE]

BotInit ==
    [units |-> [i \in UnitIds |-> Unit(i)], rr |-> 0,
     month_cap |-> Rupees(TOTAL_CAPITAL), bar_idx |-> 0, last_ts |-> NoTs,
     port_dpnl |-> [d \in Days |-> 0], trades |-> << >>, entered |-> << >>,
     tick |-> NoTick]

\* variant: the monthly guard is read after the EXITS loop
Bot_bar_exits_first(st, b, now) ==
    LET ts   == b.ts
        day  == ts.day
        \* day change detection
        s1 == IF st.last_ts # NoTs /\ st.last_ts.day # day
              THEN [st EXCEPT !.port_dpnl = [d \in Days |-> 0],
                              !.month_cap = IF MonthOf(day) # MonthOf(st.last_ts.day)
                                            THEN TotalCap(st) ELSE @]
              ELSE st
        s2 == [s1 EXCEPT !.last_ts = ts, !.bar_idx = @ + 1,
                         !.units = [i \in UnitIds |-> Unit_tick(s1.units[i])]]
        \* monthly DD guard
        total_cap == TotalCap(s2)
        halted == (total_cap - s2.month_cap) * 100 < 0 - MAX_PORT_DD_MONTHLY * s2.month_cap
        \* daily DD guard
        port_day_ok == s2.port_dpnl[day] * 100 > 0 - Rupees(TOTAL_CAPITAL) * MAX_PORT_DD_DAILY
        eod == is_hard_close(now)
        s3 == ExitLoop(s2, 0, ts, b.spot, eod)
        s4 == IF is_entry_win(now) /\ port_day_ok /\ ~ eod
              THEN Bot_entry(s3, b.sig, ts, b.spot) ELSE s3
    IN  IF halted
        THEN [s3 EXCEPT !.tick = [halted |-> TRUE, port_day_ok |-> TRUE,
                                  eod |-> FALSE, in_entry |-> FALSE]]
        ELSE [s4 EXCEPT !.tick = [halted |-> FALSE, port_day_ok |-> port_day_ok,
                                  eod |-> eod, in_entry |-> is_entry_win(now)]]

Bot_bar(st, b, now) ==
    LET ts   == b.ts
        day  == ts.day
        \* day change detection
        s1 == IF st.last_ts # NoTs /\ st.last_ts.day # day
              THEN [st EXCEPT !.port_dpnl = [d \in Days |-> 0],
                              !.month_cap = IF MonthOf(day) # MonthOf(st.last_ts.day)
                                            THEN TotalCap(st) ELSE @]
              ELSE st
        s2 == [s1 EXCEPT !.last_ts = ts, !.bar_idx = @ + 1,
                         !.units = [i \in UnitIds |-> Unit_tick(s1.units[i])]]
        \* monthly DD guard
        total_cap == TotalCap(s2)
        halted == (total_cap - s2.month_cap) * 100 < 0 - MAX_PORT_DD_MONTHLY * s2.month_cap
        \* daily DD guard
        port_day_ok == s2.port_dpnl[day] * 100 > 0 - Rupees(TOTAL_CAPITAL) * MAX_PORT_DD_DAILY
        eod == is_hard_close(now)
        s3 == ExitLoop(s2, 0, ts, b.spot, eod)
        s4 == IF is_entry_win(now) /\ port_day_ok /\ ~ eod
              THEN Bot_entry(s3, b.sig, ts, b.spot) ELSE s3
    IN  IF halted
        THEN [s2 EXCEPT !.tick = [halted |-> TRUE, port_day_ok |-> TRUE,
                                  eod |-> FALSE, in_entry |-> FALSE]]
        ELSE [s4 EXCEPT !.tick = [halted |-> FALSE, port_day_ok |-> port_day_ok,
                                  eod |-> eod, in_entry |-> is_entry_win(now)]]

(***************************************************************************)
(* The state file (bot.py 389-426).  A file is absent, holds the JSON      *)
(* document written by save_state, or holds what open(STATE_FILE, "w")     *)
(* and an unfinished json.dump leave behind, which json.load rejects.      *)
(***************************************************************************)
NoFile   == [kind |-> "absent"]
TornFile == [kind |-> "torn"]

\* str(k) of a date and date.fromisoformat
Iso(d)     == [iso |-> d]
FromIso(k) == k.iso

Unit_to_dict(u) ==
    [uid |-> u.uid, capital |-> u.capital, trade |-> u.trade,
     streak |-> u.streak, cooldown |-> u.cooldown, n_trades |-> u.n_trades,
     last_bar |-> u.last_bar,
     day_trades |-> [k \in {Iso(d) : d \in Days} |-> u.day_trades[FromIso(k)]],
     day_pnl |-> [k \in {Iso(d) : d \in Days} |-> u.day_pnl[FromIso(k)]]]

\* cls(d["uid"], d["capital"]) takes UNIT_SIZE for a capital of zero
Unit_from_dict(d) ==
    [Unit(d.uid) EXCEPT !.capital = IF d.capital # 0 THEN d.capital ELSE @,
                        !.trade = d.trade, !.streak = d.streak,
                        !.cooldown = d.cooldown, !.n_trades = d.n_trades,
                        !.last_bar = d.last_bar,
                        !.day_trades = [x \in {FromIso(k) : k \in DOMAIN d.day_trades}
                                           |-> d.day_trades[Iso(x)]],
                        !.day_pnl = [x \in {FromIso(k) : k \in DOMAIN d.day_pnl}
                                        |-> d.day_pnl[Iso(x)]]]

save_state(units, rr, month_cap) ==
    [kind |-> "state", units |-> [i \in UnitIds |-> Unit_to_dict(units[i])],
     rr |-> rr, month_start_cap |-> month_cap]

load_state(file) ==
    IF file.kind = "state"
    THEN [units |-> [i \in UnitIds |-> Unit_from_dict(file.units[i])],
          rr |-> file.rr, month_cap |-> file.month_start_cap]
    ELSE [units |-> [i \in UnitIds |-> Unit(i)], rr |-> 0,
          month_cap |-> Rupees(TOTAL_CAPITAL)]

\* Bot.__init__ over a state file
Bot(file) ==
    LET s == load_state(file)
    IN  [BotInit EXCEPT !.units = s.units, !.rr = s.rr, !.month_cap = s.month_cap]

\* the state file after Bot._bar took st to new on bar b: save_state at the
\* end of the handler, or only the one of a month change when the handler
\* returned at the monthly guard
Bot_bar_file(st, new, file, b) ==
    IF ~ new.tick.halted
    THEN save_state(new.units, new.rr, new.month_cap)
    ELSE IF /\ st.last_ts # NoTs
            /\ st.last_ts.day # b.ts.day
            /\ MonthOf(b.ts.day) # MonthOf(st.last_ts.day)
         THEN save_state(st.units, st.rr, TotalCap(st))
         ELSE file

(***************************************************************************)
(* run_backtest: state at bot.py 725-731 and one iteration of the loop     *)
(* at 733-802                                                              *)
(***************************************************************************)
RunBacktestInit ==
    [units |-> [i \in UnitIds |-> Unit(i)], rr |-> 0, bar_idx |-> 0,
     port_dpnl |-> [d \in Days |-> 0], trades |-> << >>, entered |-> << >>,
     tick |-> NoTick]

run_backtest_bar(st, b) ==
    LET ts  == b.ts
        s1  == [st EXCEPT !.units = [i \in UnitIds |-> Unit_tick(st.units[i])],
                          !.bar_idx = @ + 1]
        in_entry == ENTRY_START <= ts.hm /\ ts.hm <= ENTRY_END
        eod      == ts.hm >= HARD_CLOSE
        port_ok  == s1.port_dpnl[ts.day] * 100 > 0 - Rupees(TOTAL_CAPITAL) * MAX_PORT_DD_DAILY
        s2 == ExitLoop(s1, 0, ts, b.spot, eod)
        s3 == IF in_entry /\ port_ok /\ ~ eod
              THEN Bot_entry(s2, b.sig, ts, b.spot) ELSE s2
    IN  [s3 EXCEPT !.tick = [halted |-> FALSE, port_day_ok |-> port_ok,
                             eod |-> eod, in_entry |-> in_entry]]

(***************************************************************************)
(* strategy.py: pricing used by backtest.py                                *)
(***************************************************************************)
\* synth_premium is the formula of synth_prem
synth_premium(spot) ==
    LET tenths == (spot * SynthCoef + 500000) \div 1000000
    IN  Max(tenths * 10000, spot * 200)

\* estimate_exit_premium: delta = 0.50, gamma = 0.00008, floor 5% of entry
estimate_exit_premium(entry_prem, entry_spot, exit_spot, opt_type, bars_held) ==
    LET sign     == IF opt_type = "CE" THEN 1 ELSE -1
        spot_chg == exit_spot - entry_spot
        prem_chg == sign * (50000 * spot_chg + 4 * spot_chg * spot_chg)
        theta    == (entry_prem * 2 * bars_held) \div 10000
    IN  Max(entry_prem + prem_chg - theta, entry_prem \div 20)

\* strategy.calc_pnl: the same net-of-slippage value with the same floor
strategy_calc_pnl(entry_prem, exit_prem, lot_size, qty) ==
    Max(NetPnl(entry_prem, exit_prem, lot_size * qty),
        MaxLoss(entry_prem, lot_size * qty))

(***************************************************************************)
(* backtest.py: BacktestUnit, Backtester.get_unit, Backtester._halted and  *)
(* the body of the per-bar loop of Backtester.run (285-395).  The loop     *)
(* runs over the bars of week days that have at least MIN_DAY_BARS bars.   *)
(***************************************************************************)
MIN_DAY_BARS == 5

BtNoTrade == [bar_idx |-> -1, entry_time |-> NoTs, entry_spot |-> 0,
              entry_prem |-> 0, opt_type |-> "None", lot_size |-> 0, qty |-> 0]

BacktestUnit(uid) ==
    [uid |-> uid, capital |-> Rupees(config_UNIT_SIZE), trade |-> BtNoTrade,
     streak |-> 0, cooldown |-> 0, last_bar |-> -99]

BacktestUnit_free(u) == u.trade = BtNoTrade /\ u.cooldown = 0

BacktestUnit_tick(u) == IF u.cooldown > 0 THEN [u EXCEPT !.cooldown = @ - 1] ELSE u

BacktesterInit ==
    [units |-> [i \in UnitIds |-> BacktestUnit(i)], rr_ptr |-> 0, bar_idx |-> 0,
     all_trades |-> << >>, entered |-> << >>, tick |-> NoTick]

Backtester_total_cap(st) == SumOver([i \in UnitIds |-> st.units[i].capital], UnitIds)

Backtester_halted(st) ==
    Backtester_total_cap(st) * 100
        < Rupees(config_TOTAL_CAPITAL) * (100 - config_MAX_PORT_DD)

\* get_unit: the first free unit in scan order past its signal cooldown;
\* -1 for Python's None
Backtester_get_unit(st, bar_idx) ==
    LET hits == {k \in 0 .. (config_NUM_UNITS - 1) :
                   LET u == st.units[(st.rr_ptr + k) % config_NUM_UNITS]
                   IN  BacktestUnit_free(u)
                       /\ bar_idx - u.last_bar >= config_SIGNAL_COOLDOWN}
    IN  IF hits = {} THEN -1
        ELSE (st.rr_ptr + (CHOOSE x \in hits : \A y \in hits : x <= y))
                 % config_NUM_UNITS

Backtester_reason(t, bars_held, exit_prem, eod) ==
    LET sl_level == (t.entry_prem \div 100) * (100 - config_SL_DROP_PCT)
        tp_level == (t.entry_prem \div 100) * (100 + config_TP_GAIN_PCT)
        r == IF bars_held >= config_MIN_HOLD_BARS
             THEN IF exit_prem <= sl_level THEN "SL"
                  ELSE IF exit_prem >= tp_level THEN "TP"
                  ELSE IF bars_held >= config_TIME_EXIT_BARS THEN "TIME_EXIT"
                  ELSE "None"
             ELSE "None"
    IN  IF r = "None" /\ eod THEN "EOD" ELSE r

Backtester_exit(st, uid, ts, spot, eod) ==
    LET u         == st.units[uid]
        t         == u.trade
        bars_held == st.bar_idx - t.bar_idx
        exit_prem == estimate_exit_premium(t.entry_prem, t.entry_spot, spot,
                                           t.opt_type, bars_held)
        reason    == Backtester_reason(t, bars_held, exit_prem, eod)
        pnl       == strategy_calc_pnl(t.entry_prem, exit_prem, t.lot_size, t.qty)
        u1        == [u EXCEPT !.capital = @ + pnl, !.trade = BtNoTrade]
        u2        == IF pnl < 0
                     THEN IF u1.streak + 1 >= config_LOSS_STREAK_MAX
                          THEN [u1 EXCEPT !.cooldown = config_COOLDOWN_BARS,
                                          !.streak = 0]
                          ELSE [u1 EXCEPT !.streak = @ + 1]
                     ELSE [u1 EXCEPT !.streak = 0]
    IN  IF reason = "None" THEN st
        ELSE [st EXCEPT !.units[uid] = u2,
                        !.all_trades = Append(@,
                            [unit |-> uid, trade |-> t, exit_time |-> ts,
                             exit_spot |-> spot,
                             exit_prem |-> RoundDiv(exit_prem, PUPerPaise) * PUPerPaise,
                             bars_held |-> bars_held, pnl |-> pnl,
                             exit_reason |-> reason])]

RECURSIVE Backtester_exits(_, _, _, _, _)
Backtester_exits(st, uid, ts, spot, eod) ==
    IF uid >= config_NUM_UNITS THEN st
    ELSE IF st.units[uid].trade = BtNoTrade
         THEN Backtester_exits(st, uid + 1, ts, spot, eod)
         ELSE Backtester_exits(Backtester_exit(st, uid, ts, spot, eod),
                               uid + 1, ts, spot, eod)

\* the ENTRIES block, lines 361-384; get_unit moves rr_ptr before the cost test
Backtester_entry(st, sig, ts, spot) ==
    LET uid  == Backtester_get_unit(st, st.bar_idx)
        prem == synth_premium(spot)
        lot  == config_LOT_SIZE
    IN  IF sig = "None" \/ uid = -1 THEN st
        ELSE LET s1 == [st EXCEPT !.rr_ptr = (uid + 1) % config_NUM_UNITS]
             IN  IF (prem * lot) \div 50 <= s1.units[uid].capital * (config_MAX_COST_PCT \div 5)
                 THEN [s1 EXCEPT !.units[uid].trade =
                                      [bar_idx |-> st.bar_idx, entry_time |-> ts,
                                       entry_spot |-> spot, entry_prem |-> prem,
                                       opt_type |-> sig, lot_size |-> lot, qty |-> 1],
                                 !.units[uid].last_bar = st.bar_idx,
                                 !.entered = Append(@, [bar |-> st.bar_idx, time |-> ts,
                                                        unit |-> uid, opt_type |-> sig,
                                                        qty |-> 1,
                                                        attempt |-> (uid - st.rr_ptr) % config_NUM_UNITS])]
                 ELSE s1

Backtester_bar(st, b) ==
    LET ts  == b.ts
        s1  == [st EXCEPT !.bar_idx = @ + 1,
                          !.units = [i \in UnitIds |-> BacktestUnit_tick(st.units[i])]]
        eod == ts.hm >= config_HARD_CLOSE
        s2  == Backtester_exits(s1, 0, ts, b.spot, eod)
        in_entry == config_ENTRY_START <= ts.hm /\ ts.hm <= config_ENTRY_END
        halted   == Backtester_halted(s2)
        s3  == IF in_entry /\ ~ eod /\ ~ halted
               THEN Backtester_entry(s2, b.sig, ts, b.spot) ELSE s2
    IN  [s3 EXCEPT !.tick = [halted |-> halted, port_day_ok |-> TRUE,
                             eod |-> eod, in_entry |-> in_entry]]

(***************************************************************************)
(* The bar stream.  The drivers receive the same sequence of bars; the     *)
(* model draws it bar by bar from bounded families of sequences.  A        *)
(* family (profile) fixes the time of the first bar, two spot levels and   *)
(* a default signal, and bounds the number of bars, of spot moves and of   *)
(* bars whose signal is not the default.  Bars follow the 15-minute grid   *)
(* of a session; a new session may begin once the current one has          *)
(* MIN_DAY_BARS bars.                                                      *)
(***************************************************************************)
VARIABLES
    live,   \* the Bot instance
    rb,     \* the locals of run_backtest
    bt,     \* the Backtester instance
    bar,    \* the bar handed to the engines by the last tick
    gen,    \* what is left of the stream's bounds
    disk,   \* the contents of STATE_FILE
    ref,    \* a Bot instance fed like live that is never restarted
    run,    \* the live process: what is left of its bounds, its last clock reading
    dash    \* the dashboard: its backtest threads, _LAST_BT, backtest_runs

vars == << live, rb, bt, bar, gen, disk, ref, run, dash >>

NoBar == Bar(NoTs, 0, "None")

FIRST_SLOT == 9 * 60 + 15     \* 09:15, first bar of a session (_to_df)
LAST_SLOT  == 15 * 60 + 30    \* 15:30, last bar of a session (_to_df)
BAR_MIN    == 15              \* "interval": "15"

\* bounds: bars, off-default signals and spot moves of the five families
SoloBars  == 10
SoloSigs  == 1
SoloMoves == 2
BusyBars  == 7
BusySigs  == 1
BusyMoves == 2
HaltBars  == 7
HaltMoves == 1
LongBars  == 15
LongMoves == 3
CycleBars  == 11
CycleSigs  == 2
CycleMoves == 2

\* spot levels: a pair 200 points apart and a pair 400 points apart at
\* which backtest.py can afford a lot, and a pair at which the premium
\* exceeds 166 rupees
LowPair  == {20700, 20900}
WidePair == {20500, 20900}
HighPair == {24000, 24400}

Profiles ==
    { [first |-> 0, spots |-> sp, start |-> h, sigdef |-> "None", alts |-> {"CE", "PE"},
       sigs |-> SoloSigs, moves |-> SoloMoves, bars |-> SoloBars] :
         sp \in {LowPair, WidePair, HighPair},
         h  \in {9 * 60 + 15, 13 * 60, 13 * 60 + 45} }
    \cup
    { [first |-> 0, spots |-> sp, start |-> 9 * 60 + 30, sigdef |-> "CE", alts |-> {"None", "PE"},
       sigs |-> BusySigs, moves |-> BusyMoves, bars |-> BusyBars] :
         sp \in {LowPair, WidePair, HighPair} }
    \cup
    { [first |-> 0, spots |-> LowPair, start |-> h, sigdef |-> "CE", alts |-> {},
       sigs |-> 0, moves |-> LongMoves, bars |-> LongBars] :
         h \in {9 * 60 + 30, 13 * 60 + 15} }
    \cup
    { [first |-> 0, spots |-> LowPair, start |-> 9 * 60 + 30, sigdef |-> "PE", alts |-> {"CE"},
       sigs |-> CycleSigs, moves |-> CycleMoves, bars |-> CycleBars] }
    \cup
    { [first |-> 1, spots |-> WidePair, start |-> 9 * 60 + 30, sigdef |-> "CE",
       alts |-> {}, sigs |-> 0, moves |-> HaltMoves, bars |-> HaltBars] }

\* readings of the wall clock (minutes after the bar's timestamp) that
\* Bot.run can produce: it wakes 3 seconds before the 15-minute boundary
\* or just after it, and the last fetched row is the bar that closes or
\* the bar that opens there
ClockSkews == {0, 14, 15}

\* one reading per distinct outcome of the two tests made on the clock
ClockReadings(hm) ==
    { n \in {hm + k : k \in ClockSkews} :
        \A m \in {hm + k : k \in ClockSkews} :
           (is_hard_close(m) = is_hard_close(n) /\ is_entry_win(m) = is_entry_win(n))
              => n <= m }

\* the timestamps that may follow the last bar
NextTimes ==
    IF bar = NoBar
    THEN { [day |-> gen.first, hm |-> gen.start] }
    ELSE LET d == bar.ts.day
             h == bar.ts.hm
         IN  (IF h + BAR_MIN <= LAST_SLOT
              THEN { [day |-> d, hm |-> h + BAR_MIN] } ELSE {})
             \cup
             (IF d < gen.first + MaxDay /\ gen.dayBars >= MIN_DAY_BARS
              THEN { [day |-> d + 1, hm |-> FIRST_SLOT + BAR_MIN] } ELSE {})

NextSpots ==
    IF bar = NoBar THEN { [spot |-> s, move |-> 0] : s \in gen.spots }
    ELSE { [spot |-> s, move |-> IF s = bar.spot THEN 0 ELSE 1] : s \in gen.spots }

NextSigs ==
    { [sig |-> s, alt |-> IF s = gen.sigdef THEN 0 ELSE 1] :
         s \in {gen.sigdef} \cup gen.alts }

(***************************************************************************)
(* The dashboard (bot.py 907-908, 1336-1352): GET /run-backtest starts a   *)
(* thread that calls run_backtest and, under _BT_LOCK, stores the result   *)
(* in _LAST_BT; run_backtest stores it in the backtest_runs table.         *)
(***************************************************************************)
\* bounds: the requests of one run, and the rows of a fetched frame that
\* the loop of run_backtest visits
MaxBacktests == 2
DashBars     == 4

DashThreads == 1 .. MaxBacktests

\* the frames a request may fetch: one session from 09:30 on, a CE signal
\* on every bar, the last close 200 points off the others
DashFrames ==
    { [k \in 1 .. DashBars |->
          Bar([day |-> 0, hm |-> 9 * 60 + 30 + (k - 1) * BAR_MIN],
              IF k = DashBars THEN p[2] ELSE p[1], "CE")] :
        p \in {<< 20700, 20900 >>, << 20900, 20700 >>} }

\* pc: where the thread stands; df, i: the frame and the next row of the
\* loop; st: the locals of its run_backtest
DashIdle == [pc |-> "idle", df |-> << >>, i |-> 0, st |-> RunBacktestInit]

DashInit == [thr |-> [t \in DashThreads |-> DashIdle], last_bt |-> << >>,
             runs |-> << >>]

\* what run_backtest returns
DashResult(st) == [n_trades |-> Len(st.trades)]

\* variant: the thread works on the units and the pointer of the Bot
DashGet_shared ==
    /\ \E t \in DashThreads, df \in DashFrames :
          /\ dash.thr[t].pc = "idle"
          /\ dash' = [dash EXCEPT !.thr[t] =
                         [pc |-> "loop", df |-> df, i |-> 1,
                          st |-> [RunBacktestInit EXCEPT !.units = live.units,
                                                         !.rr = live.rr]]]
    /\ UNCHANGED << live, rb, bt, bar, gen, disk, ref, run >>

\* GET /run-backtest: the thread starts and run_backtest reaches its loop
DashGet ==
    /\ \E t \in DashThreads, df \in DashFrames :
          /\ dash.thr[t].pc = "idle"
          /\ dash' = [dash EXCEPT !.thr[t] = [pc |-> "loop", df |-> df, i |-> 1,
                                              st |-> RunBacktestInit]]
    /\ UNCHANGED << live, rb, bt, bar, gen, disk, ref, run >>

\* one iteration of the loop of run_backtest in a thread
DashLoop ==
    /\ \E t \in DashThreads :
          /\ dash.thr[t].pc = "loop"
          /\ dash.thr[t].i <= Len(dash.thr[t].df)
          /\ dash' = [dash EXCEPT
                        !.thr[t].st = run_backtest_bar(@, dash.thr[t].df[dash.thr[t].i]),
                        !.thr[t].i = @ + 1]
    /\ UNCHANGED << live, rb, bt, bar, gen, disk, ref, run >>

\* the loop is over: save_backtest(result), then _LAST_BT = result
DashDone ==
    /\ \E t \in DashThreads :
          /\ dash.thr[t].pc = "loop"
          /\ dash.thr[t].i > Len(dash.thr[t].df)
          /\ dash' = [dash EXCEPT !.thr[t].pc = "done",
                                  !.runs = Append(@, DashResult(dash.thr[t].st)),
                                  !.last_bt = DashResult(dash.thr[t].st)]
    /\ UNCHANGED << live, rb, bt, bar, gen, disk, ref, run >>

\* bound of the live process: the incidents of one run (a failed fetch, a
\* poll that returns the row of the poll before, a restart, a kill inside
\* save_state, an alert that cannot be delivered, a failed database write)
MaxIncidents == 1

\* left: incidents still allowed; log: the incidents so far; now: the last
\* reading of the wall clock
RunInit == [left |-> MaxIncidents, log |-> << >>, now |-> -1]

Incident(kind) == [run EXCEPT !.left = @ - 1, !.log = Append(@, kind)]

Init ==
    /\ live = BotInit
    /\ rb   = RunBacktestInit
    /\ bt   = BacktesterInit
    /\ bar  = NoBar
    /\ disk = NoFile
    /\ ref  = BotInit
    /\ run  = RunInit
    /\ dash = DashInit
    /\ \E p \in Profiles :
          gen = [first |-> p.first, spots |-> p.spots, start |-> p.start, sigdef |-> p.sigdef,
                 alts |-> p.alts, sigs |-> p.sigs, moves |-> p.moves, left |-> p.bars,
                 dayBars |-> 0]

\* one tick: the next bar is handed to every driver
Tick ==
    /\ gen.left > 0
    /\ \E ts \in NextTimes, sp \in NextSpots, sg \in NextSigs :
          /\ sp.move <= gen.moves
          /\ sg.alt <= gen.sigs
          /\ \E now \in ClockReadings(ts.hm) :
               LET b == Bar(ts, sp.spot, sg.sig)
               IN  /\ bar'  = b
                   /\ live' = Bot_bar(live, b, now)
                   /\ disk' = Bot_bar_file(live, live', disk, b)
                   /\ rb'   = run_backtest_bar(rb, b)
                   /\ bt'   = Backtester_bar(bt, b)
                   /\ UNCHANGED << ref, run, dash >>
                   /\ gen'  = [gen EXCEPT !.left = @ - 1,
                                          !.moves = @ - sp.move,
                                          !.sigs = @ - sg.alt,
                                          !.dayBars = IF bar # NoBar /\ ts.day # bar.ts.day
                                                      THEN 1 ELSE @ + 1]

Next == Tick

Spec == Init /\ [][Next]_vars

(***************************************************************************)
(* The live process (bot.py 212-225, 462-530).  fetch_spot returns None or *)
(* a frame; Bot._bar leaves at once unless the frame has 30 rows and some  *)
(* row survives add_indicators(df).dropna(), and reads the last such row.  *)
(* The process may be killed and started again, and a kill may fall        *)
(* between the open(STATE_FILE, "w") and the end of json.dump.             *)
(***************************************************************************)
MIN_ROWS == 30

\* rows: len(df), -1 for None; full: rows left by dropna; last: df.iloc[-1]
Frame(rows, full, b) == [rows |-> rows, full |-> full, last |-> b]
NoFrame      == Frame(-1, 0, NoBar)
GoodFrame(b) == Frame(2 * 25, 25, b)
BadFrames    == {NoFrame, Frame(MIN_ROWS - 1, 1, NoBar), Frame(MIN_ROWS, 0, NoBar)}

\* whether the alert request went through
NetOutcomes == {"ok", "fail"}

\* variant: the request is made outside any try
Bot_tg_unguarded(net) == IF net = "ok" THEN "returned" ELSE "raised"

\* Bot._tg: the request sits in try / except: pass, so the call returns
\* whatever the network did
Bot_tg(net) == "returned"

\* the alerts of the handler that took st to new: the summary of the day
\* before (_eod at the day change), ENTER and EXIT, the summary at the close
DayAlert(st, new)   == st.last_ts # NoTs /\ st.last_ts.day # new.last_ts.day
TradeAlert(st, new) == new.trades # st.trades \/ new.entered # st.entered
CloseAlert(new)     == new.tick.eod
Alerted(st, new)    == DayAlert(st, new) \/ TradeAlert(st, new) \/ CloseAlert(new)

\* Bot._bar once the row was read and the engine taken from st to new:
\* the engine and the state file the handler leaves
Bot_bar_end(st, new, file, b, net) ==
    IF Alerted(st, new) /\ Bot_tg(net) = "raised"
    THEN \* a call that raised would end the handler where it stands:
         \* before anything was assigned, before save_state, or after it
         IF DayAlert(st, new) THEN [bot |-> st, file |-> file]
         ELSE IF TradeAlert(st, new) THEN [bot |-> new, file |-> file]
         ELSE [bot |-> new, file |-> Bot_bar_file(st, new, file, b)]
    ELSE [bot |-> new, file |-> Bot_bar_file(st, new, file, b)]

\* variant: the bar is counted before the frame is looked at
Bot_bar_df_counting(st, file, df, now, net) ==
    IF df.rows < 0 \/ df.rows < MIN_ROWS \/ df.full = 0
    THEN [bot |-> [st EXCEPT !.bar_idx = @ + 1], file |-> file]
    ELSE Bot_bar_end(st, Bot_bar(st, df.last, now), file, df.last, net)

\* Bot._bar from the fetch on
Bot_bar_df(st, file, df, now, net) ==
    IF df.rows < 0 \/ df.rows < MIN_ROWS THEN [bot |-> st, file |-> file]
    ELSE IF df.full = 0 THEN [bot |-> st, file |-> file]
    ELSE Bot_bar_end(st, Bot_bar(st, df.last, now), file, df.last, net)

\* the EXITS loop when save_trade raises (bot.py 141-155 has no try): the
\* loop ends inside the first _exit that closes a trade, after u.close and
\* the port_dpnl update, with the record neither stored nor in today_trd
RECURSIVE ExitLoop_save_trade_raises(_, _, _, _, _)
ExitLoop_save_trade_raises(st, uid, ts, spot, eod) ==
    IF uid >= NUM_UNITS THEN [bot |-> st, raised |-> FALSE]
    ELSE IF ~ HasTrade(st.units[uid])
         THEN ExitLoop_save_trade_raises(st, uid + 1, ts, spot, eod)
         ELSE IF Bot_exit(st.units[uid], ts, spot, eod).closed = << >>
              THEN ExitLoop_save_trade_raises(
                      [st EXCEPT !.units[uid] = Bot_exit(st.units[uid], ts, spot, eod).unit],
                      uid + 1, ts, spot, eod)
              ELSE [bot |-> [st EXCEPT
                               !.units[uid] = Bot_exit(st.units[uid], ts, spot, eod).unit,
                               !.port_dpnl[ts.day] =
                                   @ + Bot_exit(st.units[uid], ts, spot, eod).pnl],
                    raised |-> TRUE]

\* Bot._bar up to the EXITS loop: day change, last_ts, bar_idx, u.tick()
Bot_bar_ticked(st, b) ==
    [(IF st.last_ts # NoTs /\ st.last_ts.day # b.ts.day
      THEN [st EXCEPT !.port_dpnl = [d \in Days |-> 0],
                      !.month_cap = IF MonthOf(b.ts.day) # MonthOf(st.last_ts.day)
                                    THEN TotalCap(st) ELSE @]
      ELSE st)
     EXCEPT !.last_ts = b.ts, !.bar_idx = @ + 1,
            !.units = [i \in UnitIds |-> Unit_tick(@[i])]]

\* Bot._bar on a bar on which save_trade raises: the exception leaves the
\* handler and is caught in Bot.run, which logs it and sleeps
Bot_bar_save_trade_raises(st, b, now) ==
    IF Bot_bar(st, b, now).tick.halted THEN [bot |-> st, raised |-> FALSE]
    ELSE ExitLoop_save_trade_raises(Bot_bar_ticked(st, b), 0, b.ts, b.spot,
                                    is_hard_close(now))

\* a new process over the state file; trades.csv and the log are kept
Reboot(st, file) ==
    [Bot(file) EXCEPT !.trades = st.trades, !.entered = st.entered]

\* bounds of the stream fed to the live process
LiveBars  == 6
LiveSigs  == 1
LiveMoves == 1

LiveProfiles ==
    { [first |-> 0, spots |-> LowPair, start |-> 9 * 60 + 30, sigdef |-> "CE", alts |-> {"None", "PE"},
       sigs |-> LiveSigs, moves |-> LiveMoves, bars |-> LiveBars] }

LiveInit ==
    /\ live = BotInit
    /\ rb   = RunBacktestInit
    /\ bt   = BacktesterInit
    /\ bar  = NoBar
    /\ disk = NoFile
    /\ ref  = BotInit
    /\ run  = RunInit
    /\ dash = DashInit
    /\ \E p \in LiveProfiles :
          gen = [first |-> p.first, spots |-> p.spots, start |-> p.start, sigdef |-> p.sigdef,
                 alts |-> p.alts, sigs |-> p.sigs, moves |-> p.moves, left |-> p.bars,
                 dayBars |-> 0]

\* the stream moves on to bar b
Fed(b, sp, sg) ==
    /\ bar' = b
    /\ gen' = [gen EXCEPT !.left = @ - 1,
                          !.moves = @ - sp.move,
                          !.sigs = @ - sg.alt,
                          !.dayBars = IF bar # NoBar /\ b.ts.day # bar.ts.day
                                      THEN 1 ELSE @ + 1]

\* the handler left r; the engine that is never restarted becomes r_ref
Handled(r, r_ref) ==
    /\ live' = r.bot
    /\ disk' = r.file
    /\ ref'  = r_ref

\* the poll finds a new last row
LiveTick ==
    /\ gen.left > 0
    /\ \E ts \in NextTimes, sp \in NextSpots, sg \in NextSigs :
          /\ sp.move <= gen.moves
          /\ sg.alt <= gen.sigs
          /\ \E now \in ClockReadings(ts.hm), net \in NetOutcomes :
               /\ Handled(Bot_bar_df(live, disk, GoodFrame(Bar(ts, sp.spot, sg.sig)), now, net),
                          Bot_bar(ref, Bar(ts, sp.spot, sg.sig), now))
               /\ net = "fail" => run.left > 0 /\ Alerted(live, live')
               /\ Fed(Bar(ts, sp.spot, sg.sig), sp, sg)
               /\ run' = [(IF net = "fail" THEN Incident("lost") ELSE run)
                             EXCEPT !.now = now]
    /\ UNCHANGED << rb, bt, dash >>

\* one interval later the last row of the frame is still the same bar
StalePoll ==
    /\ bar # NoBar
    /\ run.left > 0
    /\ run.now + BAR_MIN <= LAST_SLOT
    /\ Handled(Bot_bar_df(live, disk, GoodFrame(bar), run.now + BAR_MIN, "ok"),
               Bot_bar(ref, bar, run.now + BAR_MIN))
    /\ run' = [Incident("stale") EXCEPT !.now = run.now + BAR_MIN]
    /\ UNCHANGED << rb, bt, bar, gen, dash >>

\* the fetch fails, or returns too little
DataError ==
    /\ run.left > 0
    /\ \E df \in BadFrames :
          Handled(Bot_bar_df(live, disk, df, run.now + BAR_MIN, "ok"), ref)
    /\ run' = Incident("error")
    /\ UNCHANGED << rb, bt, bar, gen, dash >>

\* the process is killed between two polls and started again
Restart ==
    /\ bar # NoBar
    /\ run.left > 0
    /\ live' = Reboot(live, disk)
    /\ run'  = Incident("restart")
    /\ UNCHANGED << rb, bt, bar, gen, disk, ref, dash >>

\* the handler left r with its save_state cut short; the process starts again
Killed(r, r_ref) ==
    /\ ~ r.bot.tick.halted
    /\ disk' = TornFile
    /\ live' = Reboot(r.bot, TornFile)
    /\ ref'  = r_ref

\* the process is killed inside save_state, after the file was opened for
\* writing, and started again
KillInSave ==
    /\ gen.left > 0
    /\ run.left > 0
    /\ \E ts \in NextTimes, sp \in NextSpots, sg \in NextSigs :
          /\ sp.move <= gen.moves
          /\ sg.alt <= gen.sigs
          /\ \E now \in ClockReadings(ts.hm) :
               /\ Killed(Bot_bar_df(live, disk, GoodFrame(Bar(ts, sp.spot, sg.sig)), now, "ok"),
                         Bot_bar(ref, Bar(ts, sp.spot, sg.sig), now))
               /\ Fed(Bar(ts, sp.spot, sg.sig), sp, sg)
               /\ run' = [Incident("torn") EXCEPT !.now = now]
    /\ UNCHANGED << rb, bt, dash >>

\* the handler was left by an exception at r; Bot.run goes on
Aborted(r, r_ref) ==
    /\ r.raised
    /\ live' = r.bot
    /\ ref'  = r_ref
    /\ disk' = disk

\* the poll finds a new last row and the trades table cannot be written
\* (sqlite3.OperationalError in save_trade)
WriteFails ==
    /\ gen.left > 0
    /\ run.left > 0
    /\ \E ts \in NextTimes, sp \in NextSpots, sg \in NextSigs :
          /\ sp.move <= gen.moves
          /\ sg.alt <= gen.sigs
          /\ \E now \in ClockReadings(ts.hm) :
               /\ Aborted(Bot_bar_save_trade_raises(live, Bar(ts, sp.spot, sg.sig), now),
                          Bot_bar(ref, Bar(ts, sp.spot, sg.sig), now))
               /\ Fed(Bar(ts, sp.spot, sg.sig), sp, sg)
               /\ run' = [Incident("write") EXCEPT !.now = now]
    /\ UNCHANGED << rb, bt, dash >>

LiveNext == LiveTick \/ StalePoll \/ DataError \/ Restart \/ KillInSave \/ WriteFails

LiveSpec == LiveInit /\ [][LiveNext]_vars

(***************************************************************************)
(* python bot.py --all (bot.py 1416-1422): Bot().run() in the main thread  *)
(* and the dashboard in a daemon thread of the same process, so the ticks  *)
(* of the Bot and the steps of the backtest threads interleave.            *)
(***************************************************************************)
\* bounds of the stream fed to the live process beside the dashboard
DashLiveBars  == 3
DashLiveMoves == 1

DashProfiles ==
    { [first |-> 0, spots |-> LowPair, start |-> 9 * 60 + 30, sigdef |-> "CE", alts |-> {},
       sigs |-> 0, moves |-> DashLiveMoves, bars |-> DashLiveBars] }

DashLiveInit ==
    /\ live = BotInit
    /\ rb   = RunBacktestInit
    /\ bt   = BacktesterInit
    /\ bar  = NoBar
    /\ disk = NoFile
    /\ ref  = BotInit
    /\ run  = RunInit
    /\ dash = DashInit
    /\ \E p \in DashProfiles :
          gen = [first |-> p.first, spots |-> p.spots, start |-> p.start, sigdef |-> p.sigdef,
                 alts |-> p.alts, sigs |-> p.sigs, moves |-> p.moves, left |-> p.bars,
                 dayBars |-> 0]

DashNext == LiveTick \/ DashGet \/ DashLoop \/ DashDone

DashSpec == DashLiveInit /\ [][DashNext]_vars

(***************************************************************************)
(* The snapshot alone (bot.py 389-426): a Bot whose units are drawn from   *)
(* the states a unit can be left in after at most SnapCount entries on     *)
(* one day, saved by save_state and loaded by a new process.               *)
(***************************************************************************)
\* bounds: the entries of a drawn unit, the fractions of UNIT_SIZE it may
\* have lost, and the units that are drawn
SnapCount  == 2
SnapLosses == 2
SnapDrawn  == 2

SnapPnls == {0 - (k * Rupees(UNIT_SIZE)) \div SnapLosses : k \in 0 .. SnapLosses}

\* a position taken on the 09:30 bar and evaluated once
SnapTrade(uid) ==
    [unit |-> uid, bars |-> 1, peak |-> synth_prem(20700),
     entry_time |-> [day |-> 0, hm |-> 9 * 60 + 30], entry_spot |-> 20700,
     entry_prem |-> synth_prem(20700), opt_type |-> "CE", qty |-> 1,
     lot_size |-> LOT_SIZE]

\* pnl: the closed pnl of the day; n: entries; open: a position is held.
\* No trade closes at exactly 0; a holding unit is not cooling and could
\* afford its position; a cooldown starts at the second loss in a row
SnapShapes ==
    { x \in [pnl : SnapPnls, n : 0 .. SnapCount, open : BOOLEAN,
             streak : 0 .. (LOSS_STREAK_LIMIT - 1), cooldown : 0 .. COOLDOWN_BARS] :
        LET closed == x.n - (IF x.open THEN 1 ELSE 0)
        IN  /\ closed >= 0
            /\ (x.pnl = 0) = (closed = 0)
            /\ x.open => x.cooldown = 0 /\ Rupees(UNIT_SIZE) + x.pnl > 0
            /\ closed = 0 => x.streak = 0 /\ x.cooldown = 0
            /\ closed = 1 => x.streak = 1 /\ x.cooldown = 0
            /\ x.cooldown > 0 => x.streak = 0 }

SnapUnit(uid, x) ==
    [Unit(uid) EXCEPT !.capital = @ + x.pnl,
                      !.trade = IF x.open THEN SnapTrade(uid) ELSE NoTrade,
                      !.streak = x.streak, !.cooldown = x.cooldown,
                      !.n_trades = x.n,
                      !.last_bar = IF x.n = 0 THEN @ ELSE x.n,
                      !.day_trades[0] = x.n,
                      !.day_pnl[0] = x.pnl]

SnapInit ==
    /\ \E xs \in [0 .. (SnapDrawn - 1) -> SnapShapes] :
          live = [BotInit EXCEPT
                    !.units = [i \in UnitIds |->
                                 IF i < SnapDrawn THEN SnapUnit(i, xs[i]) ELSE Unit(i)]]
    /\ ref  = live
    /\ rb   = RunBacktestInit
    /\ bt   = BacktesterInit
    /\ bar  = NoBar
    /\ disk = NoFile
    /\ run  = RunInit
    /\ dash = DashInit
    /\ gen  = [first |-> 0, spots |-> {}, start |-> 0, sigdef |-> "None", alts |-> {},
               sigs |-> 0, moves |-> 0, left |-> 0, dayBars |-> 0]

\* save_state(self.units, self.rr, self.month_cap)
SnapSave ==
    /\ disk = NoFile
    /\ disk' = save_state(live.units, live.rr, live.month_cap)
    /\ UNCHANGED << live, rb, bt, bar, gen, ref, run, dash >>

\* the process ends and a new one loads the file
SnapLoad ==
    /\ disk # NoFile
    /\ run.left > 0
    /\ live' = Reboot(live, disk)
    /\ run'  = Incident("restart")
    /\ UNCHANGED << rb, bt, bar, gen, disk, ref, dash >>

SnapNext == SnapSave \/ SnapLoad

SnapSpec == SnapInit /\ [][SnapNext]_vars

(***************************************************************************)
(* Decisions, as the claims compare them                                   *)
(***************************************************************************)
\* an entry decision: bar, unit, direction, quantity
EntryDecisions(entered) ==
    [k \in DOMAIN entered |->
        << entered[k].time, entered[k].unit, entered[k].opt_type, entered[k].qty >>]

\* an exit decision of bot.py: bar, unit, reason, bars held, pnl
ExitDecisions(trades) ==
    [k \in DOMAIN trades |->
        << trades[k].exit_time, trades[k].trade.unit, trades[k].reason,
           trades[k].bars_held, trades[k].pnl >>]

\* an exit decision of backtest.py; its TIME_EXIT is bot.py's TIME
BacktesterExitDecisions(all_trades) ==
    [k \in DOMAIN all_trades |->
        << all_trades[k].exit_time, all_trades[k].unit,
           IF all_trades[k].exit_reason = "TIME_EXIT" THEN "TIME"
           ELSE all_trades[k].exit_reason,
           all_trades[k].bars_held, all_trades[k].pnl >>]

(***************************************************************************)
(* C1  Over the same bars and from the same starting state, Bot._bar,      *)
(* run_backtest and Backtester.run make identical decisions: the same      *)
(* entries (bar, unit, direction, quantity) and the same exits (bar, unit, *)
(* reason, bars held, pnl).                                                *)
(***************************************************************************)
C1_SameDecisions ==
    /\ EntryDecisions(live.entered) = EntryDecisions(rb.entered)
    /\ EntryDecisions(rb.entered)   = EntryDecisions(bt.entered)
    /\ ExitDecisions(live.trades)   = ExitDecisions(rb.trades)
    /\ ExitDecisions(rb.trades)     = BacktesterExitDecisions(bt.all_trades)

(***************************************************************************)
(* C2  Determinism: a bar handed to the live driver in a given state       *)
(* yields the same closed-trade records and the same unit states whatever  *)
(* the wall clock reads; run_backtest has no input but the bar.            *)
(***************************************************************************)
C2_ClockIndependent ==
    [][ \A now \in ClockReadings(bar'.ts.hm) :
           /\ Bot_bar(live, bar', now).trades = live'.trades
           /\ Bot_bar(live, bar', now).units  = live'.units ]_vars

\* the closed-trade records of the two drivers of bot.py
BotRecords == {live.trades[k] : k \in DOMAIN live.trades}
                 \cup {rb.trades[k] : k \in DOMAIN rb.trades}
BacktesterRecords == {bt.all_trades[k] : k \in DOMAIN bt.all_trades}

(***************************************************************************)
(* C3  The reported exit reason is the first match in the order StopLoss,  *)
(* TakeProfit, Trail, TimeExit, EndOfDay: a position closed on a           *)
(* hard-close bar that also meets the stop-loss, take-profit, trail or     *)
(* time-exit condition is reported under that reason, so a trade reported  *)
(* as EndOfDay met none of them.                                           *)
(***************************************************************************)
C3_EodIsLastResort ==
    /\ \A r \in BotRecords :
          r.reason = "EOD" =>
             LET ep == r.trade.entry_prem
                 cp == r.exit_prem
                 pk == r.trade.peak
             IN  ~ ( /\ r.bars_held >= MIN_HOLD_BARS
                     /\ \/ cp <= (ep \div 100) * (100 - SL_PCT)
                        \/ cp >= (ep \div 100) * (100 + TP_PCT)
                        \/ pk >= (ep \div 100) * 140 /\ cp * 4 < pk * 3
                        \/ r.bars_held >= TIME_EXIT_BARS )
    /\ \A r \in BacktesterRecords :
          r.exit_reason = "EOD" =>
             LET ep == r.trade.entry_prem
                 xp == r.exit_prem
             IN  ~ ( /\ r.bars_held >= config_MIN_HOLD_BARS
                     /\ \/ xp <= (ep \div 100) * (100 - config_SL_DROP_PCT)
                        \/ xp >= (ep \div 100) * (100 + config_TP_GAIN_PCT)
                        \/ r.bars_held >= config_TIME_EXIT_BARS )

(***************************************************************************)
(* C4  Every position closed for the time exit records a bars-held count   *)
(* equal to the time-exit limit, never the limit plus one.                 *)
(***************************************************************************)
C4_TimeExitBarsHeld ==
    /\ \A r \in BotRecords :
          r.reason = "TIME" => r.bars_held = TIME_EXIT_BARS
    /\ \A r \in BacktesterRecords :
          r.exit_reason = "TIME_EXIT" => r.bars_held = config_TIME_EXIT_BARS

\* each driver has closed a position for the time exit
C4_Witness ==
    /\ \E r \in {live.trades[k] : k \in DOMAIN live.trades} : r.reason = "TIME"
    /\ \E r \in {rb.trades[k] : k \in DOMAIN rb.trades} : r.reason = "TIME"
    /\ \E r \in BacktesterRecords : r.exit_reason = "TIME_EXIT"

(***************************************************************************)
(* C6  For every closed trade, pnl >= -entryPremium * lotSize * quantity.  *)
(* The premium is in PU and the pnl in paise; the product is split in      *)
(* base 1000.                                                              *)
(***************************************************************************)
C6_MaxLossFloor ==
    \A r \in BotRecords \cup BacktesterRecords :
       LET ep   == r.trade.entry_prem
           lots == r.trade.lot_size * r.trade.qty
       IN  0 - r.pnl <= (ep \div 1000) * lots + ((ep % 1000) * lots) \div 1000

\* a trade of bot.py closed at the floor: the loss net of slippage would
\* have exceeded the premium paid
C6_Witness ==
    \E r \in BotRecords :
       LET ep   == r.trade.entry_prem
           lots == r.trade.lot_size * r.trade.qty
       IN  /\ 0 - r.pnl = (ep \div 1000) * lots + ((ep % 1000) * lots) \div 1000
           /\ NetPnl(ep, r.exit_prem, lots) < r.pnl

(***************************************************************************)
(* C7  Round-robin fairness.                                               *)
(***************************************************************************)
\* the driver has put no unit into cooldown: no unit has yet closed
\* LOSS_STREAK_LIMIT losing trades
NoCooldownYet(trades) ==
    \A i \in UnitIds :
       Cardinality({k \in DOMAIN trades :
                       trades[k].trade.unit = i /\ trades[k].pnl < 0})
          < LOSS_STREAK_LIMIT

\* the runs of NUM_UNITS consecutive entries of a log, by first index
Runs(entered) == 1 .. (Len(entered) - NUM_UNITS + 1)

AllDistinct(entered, i) ==
    \A j, k \in i .. (i + NUM_UNITS - 1) :
       j # k => entered[j].unit # entered[k].unit

\* C7 as stated: in any run of N consecutive successful entries with no
\* cooldown in between, every unit gets one entry before any unit gets a
\* second
C7_FairRuns ==
    /\ NoCooldownYet(live.trades) =>
          \A i \in Runs(live.entered) : AllDistinct(live.entered, i)
    /\ NoCooldownYet(rb.trades) =>
          \A i \in Runs(rb.entered) : AllDistinct(rb.entered, i)

\* C7 amended: in any run of N consecutive successful entries in which the
\* scan passed over no unit (each entry went to the unit under the
\* pointer), every unit gets exactly one entry
C7_FairRunsUnskipped ==
    \A entered \in {live.entered, rb.entered} :
       \A i \in Runs(entered) :
          (\A j \in i .. (i + NUM_UNITS - 1) : entered[j].attempt = 0)
             => AllDistinct(entered, i)

\* run_backtest has made N consecutive entries without passing over a unit
C7_Witness ==
    \E i \in Runs(rb.entered) :
       \A j \in i .. (i + NUM_UNITS - 1) : rb.entered[j].attempt = 0

(***************************************************************************)
(* C8  Cooldown.                                                           *)
(***************************************************************************)
\* the records a tick appended to a log
NewOnes(old, new) == {new[k] : k \in (Len(old) + 1) .. Len(new)}

\* one tick of a driver of bot.py, from state old to state new
C8_Tick(old, new) ==
    /\ \A r \in NewOnes(old.trades, new.trades) :
          (r.pnl < 0 /\ old.units[r.trade.unit].streak = LOSS_STREAK_LIMIT - 1)
             => new.units[r.trade.unit].cooldown = COOLDOWN_BARS
    /\ \A e \in NewOnes(old.entered, new.entered) :
          new.units[e.unit].cooldown = 0

\* C8: the close of a unit's LOSS_STREAK_LIMIT-th consecutive losing trade
\* sets its cooldown to COOLDOWN_BARS at that close, and no unit whose
\* cooldown counter is above zero is selected for an entry
C8_Cooldown ==
    [][ C8_Tick(live, live') /\ C8_Tick(rb, rb') ]_vars

\* on the last tick run_backtest made an entry and the scan passed over a
\* unit without a trade whose cooldown is running
C8_Witness ==
    /\ rb.entered # << >>
    /\ LET e == rb.entered[Len(rb.entered)]
       IN  /\ e.bar = rb.bar_idx
           /\ \E k \in 0 .. (e.attempt - 1) :
                 LET u == rb.units[(e.unit - e.attempt + k) % NUM_UNITS]
                 IN  ~ HasTrade(u) /\ u.cooldown > 0

(***************************************************************************)
(* C9  While a risk-guard halt (portfolio drawdown or daily loss) is in    *)
(* effect on a tick only entries are blocked: every unit that holds a      *)
(* position has its exit evaluation run on that tick (the position is      *)
(* closed or its bar count moves on; for backtest.py, a position left open *)
(* matched no exit rule).                                                  *)
(***************************************************************************)
C9_BotTick(old, new) ==
    (new.tick.halted \/ ~ new.tick.port_day_ok) =>
        \A i \in UnitIds :
           HasTrade(old.units[i]) => new.units[i].trade # old.units[i].trade

C9_BacktesterTick(old, new, b) ==
    new.tick.halted =>
        \A i \in UnitIds :
           LET t == old.units[i].trade
           IN  (t # BtNoTrade /\ new.units[i].trade = t) =>
                  Backtester_reason(t, new.bar_idx - t.bar_idx,
                      estimate_exit_premium(t.entry_prem, t.entry_spot, b.spot,
                                            t.opt_type, new.bar_idx - t.bar_idx),
                      new.tick.eod) = "None"

\* C9: on every tick on which a halt is in effect, each unit that holds a
\* position still has its exit evaluation run
C9_HaltsBlockEntriesOnly ==
    [][ /\ C9_BotTick(live, live')
        /\ C9_BotTick(rb, rb')
        /\ C9_BacktesterTick(bt, bt', bar') ]_vars

(***************************************************************************)
(* C10  Daily loss halt: once the day's realised pnl is below              *)
(* -(TOTAL_CAPITAL * MAX_PORT_DD_DAILY) on a tick of date d, no entry is   *)
(* made on a later tick of d, and the halt does not apply on the first     *)
(* tick of the next date.                                                  *)
(***************************************************************************)
\* the day's realised pnl after the tick at time ts
DayPnlAt(trades, ts) ==
    SumOver([k \in DOMAIN trades |->
                IF trades[k].exit_time.day = ts.day /\ trades[k].exit_time.hm <= ts.hm
                THEN trades[k].pnl ELSE 0],
            DOMAIN trades)

C10_Driver(st) ==
    /\ \A k \in DOMAIN st.trades :
          LET ts == st.trades[k].exit_time
          IN  DayPnlAt(st.trades, ts) * 100
                 < 0 - Rupees(TOTAL_CAPITAL) * MAX_PORT_DD_DAILY
              => \A j \in DOMAIN st.entered :
                    ~ (st.entered[j].time.day = ts.day /\ st.entered[j].time.hm > ts.hm)
    /\ (gen.dayBars = 1 /\ ~ st.tick.halted) => st.tick.port_day_ok

\* C10: after the daily loss limit is breached on a date no later tick of
\* that date makes an entry, and the first tick of a date is not halted by it
C10_DailyLossHalt == C10_Driver(live) /\ C10_Driver(rb)

(***************************************************************************)
(* C11  A unit holds at most one open position and an entry is applied     *)
(* only to a unit without one, so no open position is ever overwritten:    *)
(* every entry made so far is either closed (it has its record) or is      *)
(* still the open position of its unit.                                    *)
(***************************************************************************)
Holding(st) == {i \in UnitIds : HasTrade(st.units[i])}

C11_Accounted(st) ==
    /\ Len(st.entered) = Len(st.trades) + Cardinality(Holding(st))
    /\ \A i \in Holding(st) :
          \E k \in DOMAIN st.entered :
             /\ st.entered[k].unit = i
             /\ st.entered[k].time = st.units[i].trade.entry_time
             /\ st.units[i].trade.unit = i

C11_NoOverwrite ==
    /\ C11_Accounted(live)
    /\ C11_Accounted(rb)
    /\ Len(bt.entered) = Len(bt.all_trades)
          + Cardinality({i \in UnitIds : bt.units[i].trade # BtNoTrade})

\* a unit of run_backtest holds its second position while its first one is
\* on record as closed
C11_Witness ==
    \E i \in Holding(rb) :
       /\ rb.units[i].n_trades >= 2
       /\ \E k \in DOMAIN rb.trades : rb.trades[k].trade.unit = i

(***************************************************************************)
(* C12  An entry attempt on a unit whose preconditions fail changes no     *)
(* unit and not the rotating pointer, and the signal goes on to the next   *)
(* eligible unit in scan order.  Seen on a tick: apart from the unit that  *)
(* received the entry, the tick leaves every unit and, without an entry,   *)
(* the pointer as the same bar without a signal would have, and a signal   *)
(* yields no entry only if no unit is eligible.                            *)
(***************************************************************************)
Quiet(b) == [b EXCEPT !.sig = "None"]

\* new is the state after the bar, calm the state after the same bar
\* without its signal
C12_Frame(old, new, calm) ==
    /\ \A i \in UnitIds :
          new.units[i] # calm.units[i] =>
             \E e \in NewOnes(old.entered, new.entered) : e.unit = i
    /\ NewOnes(old.entered, new.entered) = {} => new.rr = calm.rr

\* backtest.py: an eligible unit is free, past its signal cooldown and can
\* afford one lot at the bar's premium
Backtester_eligible(st, b) ==
    {i \in UnitIds :
        /\ BacktestUnit_free(st.units[i])
        /\ st.bar_idx - st.units[i].last_bar >= config_SIGNAL_COOLDOWN
        /\ (synth_premium(b.spot) * config_LOT_SIZE) \div 50
              <= st.units[i].capital * (config_MAX_COST_PCT \div 5)}

C12_BacktesterFrame(old, new, b) ==
    LET calm == Backtester_bar(old, Quiet(b))
    IN  /\ \A i \in UnitIds :
              new.units[i] # calm.units[i] =>
                 \E e \in NewOnes(old.entered, new.entered) : e.unit = i
        /\ NewOnes(old.entered, new.entered) = {} =>
              /\ new.rr_ptr = calm.rr_ptr
              /\ (b.sig # "None" /\ new.tick.in_entry /\ ~ new.tick.eod
                     /\ ~ new.tick.halted)
                    => Backtester_eligible(calm, b) = {}

\* C12: a failed entry attempt has no side effect and the signal is offered
\* to the next eligible unit
C12_FailedAttemptNoEffect ==
    [][ /\ \E now \in ClockReadings(bar'.ts.hm) :
              /\ live' = Bot_bar(live, bar', now)
              /\ C12_Frame(live, live', Bot_bar(live, Quiet(bar'), now))
        /\ C12_Frame(rb, rb', run_backtest_bar(rb, Quiet(bar')))
        /\ C12_BacktesterFrame(bt, bt', bar') ]_vars

(***************************************************************************)
(* C13  The unit that receives an entry is the first in the scan order     *)
(* rr, rr+1, ... that has no open position, no cooldown left, a day pnl    *)
(* above minus its day-loss limit, fewer than the day's maximum of trades  *)
(* and its last entry at least the signal cooldown ago; a unit failing any *)
(* of the five is never selected.  calm is the state in which the scan     *)
(* runs: the bar's cooldown ticks and exits are done.                      *)
(***************************************************************************)
\* the five filters on a unit of bot.py; can_enter asks for one bar since
\* the last entry
C13_Five(u, ts, bar_idx) ==
    /\ ~ HasTrade(u)
    /\ u.cooldown = 0
    /\ u.day_pnl[ts.day] * 100 > 0 - Rupees(UNIT_SIZE) * MAX_UNIT_DD_DAILY
    /\ u.day_trades[ts.day] < MAX_TRADES_PER_DAY
    /\ bar_idx - u.last_bar >= 1

\* the positions of the scan before the one that was taken
Before(e) == 0 .. (e.attempt - 1)

C13_BotTick(old, new, calm, b) ==
    \A e \in NewOnes(old.entered, new.entered) :
       /\ C13_Five(calm.units[e.unit], b.ts, calm.bar_idx)
       /\ e.unit = (calm.rr + e.attempt) % NUM_UNITS
       /\ \A k \in Before(e) :
             LET u == calm.units[(calm.rr + k) % NUM_UNITS]
             IN  ~ ( /\ C13_Five(u, b.ts, calm.bar_idx)
                     /\ ~ TooCostly(synth_prem(b.spot), LOT_SIZE, u.capital) )

\* the day pnl of a unit of backtest.py, from its closed trades
Backtester_unit_day_pnl(st, i, d) ==
    SumOver([k \in DOMAIN st.all_trades |->
                IF st.all_trades[k].unit = i /\ st.all_trades[k].exit_time.day = d
                THEN st.all_trades[k].pnl ELSE 0],
            DOMAIN st.all_trades)

\* the filters of the claim that config.py has a limit for
C13_BacktesterFive(st, i, ts) ==
    /\ BacktestUnit_free(st.units[i])
    /\ Backtester_unit_day_pnl(st, i, ts.day) * 100
          > 0 - Rupees(config_UNIT_SIZE) * config_MAX_UNIT_DAY_LOSS
    /\ st.bar_idx - st.units[i].last_bar >= config_SIGNAL_COOLDOWN

C13_BacktesterTick(old, new, calm, b) ==
    \A e \in NewOnes(old.entered, new.entered) :
       /\ C13_BacktesterFive(calm, e.unit, b.ts)
       /\ e.unit = (calm.rr_ptr + e.attempt) % config_NUM_UNITS
       /\ \A k \in Before(e) :
             ~ C13_BacktesterFive(calm, (calm.rr_ptr + k) % config_NUM_UNITS, b.ts)

\* C13: the entered unit passes the five filters and is the first in scan
\* order to do so
C13_FirstEligible ==
    [][ /\ \E now \in ClockReadings(bar'.ts.hm) :
              /\ live' = Bot_bar(live, bar', now)
              /\ C13_BotTick(live, live', Bot_bar(live, Quiet(bar'), now), bar')
        /\ C13_BotTick(rb, rb', run_backtest_bar(rb, Quiet(bar')), bar')
        /\ C13_BacktesterTick(bt, bt', Backtester_bar(bt, Quiet(bar')), bar') ]_vars

(***************************************************************************)
(* C14  A successful entry into unit u sets the rotating pointer to        *)
(* (u + 1) mod N; when no unit qualifies, the signal is dropped: the       *)
(* engine is left exactly as the same bar without a signal would leave it  *)
(* (pointer, every unit, nothing kept for a later bar).                    *)
(***************************************************************************)
\* the units of bot.py that qualify for an entry at bar b
Bot_eligible(st, b) ==
    {i \in UnitIds : Bot_entry_ok(st, i, b.ts, b.spot)}

C14_BotTick(old, new, calm, b) ==
    /\ \A e \in NewOnes(old.entered, new.entered) :
          new.rr = (e.unit + 1) % NUM_UNITS
    /\ Bot_eligible(calm, b) = {} => new = calm

C14_BacktesterTick(old, new, calm, b) ==
    /\ \A e \in NewOnes(old.entered, new.entered) :
          new.rr_ptr = (e.unit + 1) % config_NUM_UNITS
    /\ Backtester_eligible(calm, b) = {} => new = calm

\* C14: the pointer moves to one past the entered unit, and a signal for
\* which no unit qualifies changes nothing
C14_PointerAndDrop ==
    [][ /\ \E now \in ClockReadings(bar'.ts.hm) :
              /\ live' = Bot_bar(live, bar', now)
              /\ C14_BotTick(live, live', Bot_bar(live, Quiet(bar'), now), bar')
        /\ C14_BotTick(rb, rb', run_backtest_bar(rb, Quiet(bar')), bar')
        /\ C14_BacktesterTick(bt, bt', Backtester_bar(bt, Quiet(bar')), bar') ]_vars

(***************************************************************************)
(* C17  Every call of Bot._bar persists the full engine state before it    *)
(* returns: after each tick the state file equals what save_state writes   *)
(* for the units, pointer and month baseline in memory.                    *)
(***************************************************************************)
C17_PersistedEveryTick ==
    bar # NoBar => disk = save_state(live.units, live.rr, live.month_cap)

\* the step is an incident of the given kind
IncidentStep(kind) ==
    /\ Len(run'.log) = Len(run.log) + 1
    /\ run'.log[Len(run'.log)] = kind

\* the last incident of the run so far
LastIncident == IF run.log = << >> THEN "none" ELSE run.log[Len(run.log)]

(***************************************************************************)
(* C15  Every bar is read by exactly one tick; in particular the live      *)
(* driver never runs a tick on the timestamp of the bar it ticked on       *)
(* before.                                                                 *)
(***************************************************************************)
C15_OneTickPerBar ==
    [][ live'.bar_idx = live.bar_idx + 1 => bar'.ts # bar.ts ]_vars

(***************************************************************************)
(* C16  When the fetch fails or returns too little, the tick is skipped    *)
(* entirely: the engine (units, bar index, cooldowns, pointer, day pnl)    *)
(* and the state file are what they were, and the next poll finds the      *)
(* engine as the last tick left it.                                        *)
(***************************************************************************)
C16_SkippedTick ==
    [][ IncidentStep("error") => live' = live /\ disk' = disk ]_vars

\* a fetch failed while a position was open and committed
C16_Witness ==
    /\ LastIncident = "error"
    /\ Holding(live) # {}
    /\ live.bar_idx > 0
    /\ disk = save_state(live.units, live.rr, live.month_cap)

(***************************************************************************)
(* C18  The snapshot is written atomically: the state file never holds a   *)
(* partial document, and a crash never loses committed state: every entry  *)
(* on record is a closed trade or a position some unit still holds.        *)
(***************************************************************************)
C18_AtomicSnapshot ==
    /\ disk # TornFile
    /\ Len(live.entered) = Len(live.trades) + Cardinality(Holding(live))

(***************************************************************************)
(* C19  An engine started from the persisted snapshot and fed the          *)
(* remaining bars takes the entries and exits of the engine that was       *)
(* never interrupted.                                                      *)
(***************************************************************************)
CleanRestartsOnly == \A k \in DOMAIN run.log : run.log[k] = "restart"

C19_RestartContinuity ==
    CleanRestartsOnly =>
        /\ EntryDecisions(live.entered) = EntryDecisions(ref.entered)
        /\ ExitDecisions(live.trades) = ExitDecisions(ref.trades)

(***************************************************************************)
(* C20  A failed alert changes nothing: the tick whose alert could not be  *)
(* delivered leaves the engine and the state file as the same tick with    *)
(* the alert delivered.                                                    *)
(***************************************************************************)
C20_AlertFailureHarmless ==
    [][ IncidentStep("lost") =>
          \E now \in ClockReadings(bar'.ts.hm) :
             [bot |-> live', file |-> disk'] =
                 Bot_bar_df(live, disk, GoodFrame(bar'), now, "ok") ]_vars

\* an ENTER alert was lost on the last tick, and the tick is committed
C20_Witness ==
    /\ LastIncident = "lost"
    /\ live.bar_idx > 0
    /\ \E k \in DOMAIN live.entered : live.entered[k].time = bar.ts
    /\ disk = save_state(live.units, live.rr, live.month_cap)

(***************************************************************************)
(* C21  The engine is consistent at every tick boundary: a tick on which a *)
(* persistence write fails leaves the engine either as it was or as the    *)
(* complete tick leaves it, never with part of the tick applied.           *)
(***************************************************************************)
C21_AllOrNothing ==
    [][ IncidentStep("write") =>
          \/ live' = live
          \/ \E now \in ClockReadings(bar'.ts.hm) : live' = Bot_bar(live, bar', now) ]_vars

\* the first part of Bot._bar, written apart, is the one inside Bot_bar
TickedAsInBar ==
    [][ \A now \in ClockReadings(bar'.ts.hm) :
           LET new == Bot_bar(live, bar', now)
           IN  /\ new.bar_idx = Bot_bar_ticked(live, bar').bar_idx
               /\ new.last_ts = Bot_bar_ticked(live, bar').last_ts
               /\ new.month_cap = Bot_bar_ticked(live, bar').month_cap
               /\ new.tick.halted => new.units = Bot_bar_ticked(live, bar').units ]_vars

(***************************************************************************)
(* C22  Exit accounting in bot.py: every closed position leaves exactly    *)
(* one record; a unit's capital is its initial capital plus the pnl of its *)
(* records, its pnl of a date is the pnl of its records closed on that     *)
(* date, and the entries are the open positions plus the records.          *)
(***************************************************************************)
\* the pnl of the records of unit i, all of them or those closed on day d
ClosedPnl(trades, i) ==
    SumOver([k \in DOMAIN trades |->
                IF trades[k].trade.unit = i THEN trades[k].pnl ELSE 0],
            DOMAIN trades)

ClosedPnlOn(trades, i, d) ==
    SumOver([k \in DOMAIN trades |->
                IF trades[k].trade.unit = i /\ trades[k].exit_time.day = d
                THEN trades[k].pnl ELSE 0],
            DOMAIN trades)

C22_Engine(st) ==
    /\ \A i \in UnitIds :
          /\ st.units[i].capital = Rupees(UNIT_SIZE) + ClosedPnl(st.trades, i)
          /\ \A d \in Days : st.units[i].day_pnl[d] = ClosedPnlOn(st.trades, i, d)
    /\ \A j, k \in DOMAIN st.trades :
          (/\ st.trades[j].trade.unit = st.trades[k].trade.unit
           /\ st.trades[j].trade.entry_time = st.trades[k].trade.entry_time) => j = k
    /\ \A k \in DOMAIN st.trades :
          st.units[st.trades[k].trade.unit].trade.entry_time
              # st.trades[k].trade.entry_time
    /\ Len(st.entered) = Len(st.trades) + Cardinality(Holding(st))

C22_ExitAccounting == C22_Engine(live) /\ C22_Engine(rb)

\* a unit of the live Bot has closed a winning and a losing trade and holds
\* a third position
C22_Witness ==
    \E i \in Holding(live) : \E j, k \in DOMAIN live.trades :
        /\ live.trades[j].trade.unit = i /\ live.trades[k].trade.unit = i
        /\ live.trades[j].pnl > 0 /\ live.trades[k].pnl < 0

(***************************************************************************)
(* C23  In every driver an entry has the quantity                          *)
(* min(maxLots, max(1, floor(capital * maxCostFraction / (premium * lot))))*)
(* and a unit the allocator offers is admitted exactly when                *)
(* premium * lot <= capital.                                               *)
(***************************************************************************)
\* the quantity of the claim; ep in PU, capital in paise, pct in percent
C23_Qty(ep, lot, capital, maxLots, pct) ==
    Min(maxLots, Max(1, (capital * (pct \div 5)) \div ((ep * lot) \div 50)))

\* entries were open to the signal of bar b on this tick
C23_Open(new, b) ==
    /\ b.sig # "None"
    /\ new.tick.in_entry /\ new.tick.port_day_ok
    /\ ~ new.tick.eod /\ ~ new.tick.halted

C23_BotTick(old, new, calm, b) ==
    LET ep == synth_prem(b.spot)
        offered(k) == calm.units[(calm.rr + k) % NUM_UNITS]
    IN  /\ \A e \in NewOnes(old.entered, new.entered) :
              /\ e.qty = C23_Qty(ep, LOT_SIZE, calm.units[e.unit].capital,
                                 MAX_LOTS, MAX_COST_PCT)
              /\ ~ TooCostly(ep, LOT_SIZE, calm.units[e.unit].capital)
              /\ \A k \in Before(e) :
                    Unit_can_enter(offered(k), b.ts, calm.bar_idx)
                       => TooCostly(ep, LOT_SIZE, offered(k).capital)
        /\ (C23_Open(new, b) /\ new.entered = old.entered) =>
              \A k \in 0 .. (NUM_UNITS - 1) :
                    Unit_can_enter(offered(k), b.ts, calm.bar_idx)
                       => TooCostly(ep, LOT_SIZE, offered(k).capital)

C23_BacktesterTick(old, new, calm, b) ==
    LET prem == synth_premium(b.spot)
        uid  == Backtester_get_unit(calm, calm.bar_idx)
    IN  /\ \A e \in NewOnes(old.entered, new.entered) :
              /\ e.qty = C23_Qty(prem, config_LOT_SIZE, calm.units[e.unit].capital,
                                 config_MAX_LOTS, config_MAX_COST_PCT)
              /\ ~ TooCostly(prem, config_LOT_SIZE, calm.units[e.unit].capital)
        /\ (C23_Open(new, b) /\ new.entered = old.entered /\ uid # -1) =>
              TooCostly(prem, config_LOT_SIZE, calm.units[uid].capital)

\* C23: quantity and admission of every entry, in the three drivers
C23_QuantityAndAdmission ==
    [][ /\ \E now \in ClockReadings(bar'.ts.hm) :
              /\ live' = Bot_bar(live, bar', now)
              /\ C23_BotTick(live, live', Bot_bar(live, Quiet(bar'), now), bar')
        /\ C23_BotTick(rb, rb', run_backtest_bar(rb, Quiet(bar')), bar')
        /\ C23_BacktesterTick(bt, bt', Backtester_bar(bt, Quiet(bar')), bar') ]_vars

(***************************************************************************)
(* C24  The portfolio drawdown halt is a live gate against the starting    *)
(* capital: a tick is halted exactly when the total capital the guard      *)
(* reads on that tick is below startingCapital * (1 - maxDrawdown); there  *)
(* is no latch, so the halt ends on the first tick at or above the line.   *)
(***************************************************************************)
\* total (paise) is below starting (rupees) less pct percent
C24_Below(total, starting, pct) == total * 100 < Rupees(starting) * (100 - pct)

\* Bot._bar reads the capital before the exits of the bar (which a halted
\* tick does not run), Backtester.run after them
C24_DrawdownGate ==
    [][ /\ live'.tick.halted
           <=> C24_Below(TotalCap(live), TOTAL_CAPITAL, MAX_PORT_DD_MONTHLY)
        /\ bt'.tick.halted
           <=> C24_Below(Backtester_total_cap(bt'), config_TOTAL_CAPITAL,
                         config_MAX_PORT_DD) ]_vars

(***************************************************************************)
(* C25  The trailing stop.  The peak of a held position is the running     *)
(* maximum of the entry premium and of every estimate made for it, and on  *)
(* a tick where neither the stop-loss nor the take-profit rule matches, a  *)
(* position whose peak has reached entry * 1.40 and whose estimate is      *)
(* below 0.75 of the peak leaves with reason TRAIL, however few bars it    *)
(* has been held.  Stated for the ticks that are not hard-close ticks and  *)
(* on which the exits are evaluated.                                       *)
(***************************************************************************)
C25_BotTick(old, new, b) ==
    \A i \in Holding(old) :
       LET t0   == old.units[i].trade
           bh   == t0.bars
           cp   == mark_prem(t0.entry_prem, t0.entry_spot, b.spot, t0.opt_type, bh)
           peak == Max(t0.peak, cp)
           sl   == bh >= MIN_HOLD_BARS /\ cp <= (t0.entry_prem \div 100) * (100 - SL_PCT)
           tp   == bh >= MIN_HOLD_BARS /\ cp >= (t0.entry_prem \div 100) * (100 + TP_PCT)
           out  == {r \in NewOnes(old.trades, new.trades) : r.trade.unit = i}
       IN  /\ out = {} => /\ new.units[i].trade.entry_time = t0.entry_time
                          /\ new.units[i].trade.peak = peak
           /\ (~ sl /\ ~ tp /\ peak >= (t0.entry_prem \div 100) * 140
                    /\ cp * 4 < peak * 3)
                 => \E r \in out : r.reason = "TRAIL"

\* C25: the peak and the trailing-stop exit of Bot._exit and run_backtest
C25_TrailingStop ==
    [][ /\ (~ live'.tick.halted /\ ~ live'.tick.eod) => C25_BotTick(live, live', bar')
        /\ ~ rb'.tick.eod => C25_BotTick(rb, rb', bar') ]_vars

(***************************************************************************)
(* C26  No position survives a hard-close bar: after a tick whose bar is   *)
(* at or after the hard-close time no unit of the engine holds a position, *)
(* and no entry carries the time of such a bar.                            *)
(***************************************************************************)
C26_Flat(st, free, hard_close) ==
    bar.ts.hm >= hard_close =>
       /\ \A i \in UnitIds : st.units[i].trade = free
       /\ \A k \in DOMAIN st.entered : st.entered[k].time # bar.ts

\* C26: in the live Bot, in run_backtest and in the Backtester
C26_FlatAfterHardClose ==
    /\ bar # NoBar => C26_Flat(live, NoTrade, HARD_CLOSE)
    /\ bar # NoBar => C26_Flat(rb, NoTrade, HARD_CLOSE)
    /\ bar # NoBar => C26_Flat(bt, BtNoTrade, config_HARD_CLOSE)

(***************************************************************************)
(* C27  Every position is closed within max(MIN_HOLD_BARS, TIME_EXIT_BARS) *)
(* bars: while bars keep arriving, the number of bars received since the   *)
(* entry of an open position never exceeds that bound.                     *)
(***************************************************************************)
C27_Bound == Max(MIN_HOLD_BARS, TIME_EXIT_BARS)

\* the bars the engine has received since the entry of unit i's position
C27_BarsSince(st, i) ==
    LET e == CHOOSE e \in {st.entered[k] : k \in DOMAIN st.entered} :
                e.unit = i /\ e.time = st.units[i].trade.entry_time
    IN  st.bar_idx - e.bar

\* the bar counter of the position itself
C27_CounterBounded(st) == \A i \in Holding(st) : st.units[i].trade.bars <= C27_Bound

\* C27: in the live Bot and in run_backtest
C27_ClosedInTime ==
    /\ \A i \in Holding(live) : C27_BarsSince(live, i) <= C27_Bound
    /\ \A i \in Holding(rb)   : C27_BarsSince(rb, i) <= C27_Bound

(***************************************************************************)
(* C28  The risk guards are read after the exits of the bar and before     *)
(* its entry: when the exits of a bar leave the day's portfolio pnl at or  *)
(* beyond the daily-loss limit, or the total capital beyond the drawdown   *)
(* limit, no entry is made on that bar.                                    *)
(***************************************************************************)
\* the day's realised pnl is at or beyond the daily limit
C28_DayBreached(st, day) ==
    st.port_dpnl[day] * 100 <= 0 - Rupees(TOTAL_CAPITAL) * MAX_PORT_DD_DAILY

\* the total capital is more than the monthly limit under month_cap
C28_DrawdownBreached(st) ==
    (TotalCap(st) - st.month_cap) * 100 < 0 - MAX_PORT_DD_MONTHLY * st.month_cap

\* the units closed and re-entered on the same bar carry the pnl of the exit
C28_GuardsAfterExits ==
    [][ /\ (C28_DayBreached(live', bar'.ts.day) \/ C28_DrawdownBreached(live'))
              => live'.entered = live.entered
        /\ C28_DayBreached(rb', bar'.ts.day) => rb'.entered = rb.entered ]_vars

(***************************************************************************)
(* C29  No exit with reason SL, TP or TIME is reported for a position      *)
(* whose bar count, as read on the tick of the exit, is below the minimum  *)
(* hold.                                                                   *)
(***************************************************************************)
C29_MinHold ==
    /\ \A r \in BotRecords \cup {rb.trades[k] : k \in DOMAIN rb.trades} :
          r.reason \in {"SL", "TP", "TIME"} => r.bars_held >= MIN_HOLD_BARS
    /\ \A r \in BacktesterRecords :
          r.exit_reason \in {"SL", "TP", "TIME_EXIT"}
             => r.bars_held >= config_MIN_HOLD_BARS

\* a take-profit on the first tick after the minimum hold, of a position
\* whose estimate had been higher, hence at the level, on an earlier tick
C29_Witness ==
    \E r \in BotRecords :
       /\ r.reason = "TP"
       /\ r.bars_held = MIN_HOLD_BARS
       /\ r.trade.peak > r.exit_prem

(***************************************************************************)
(* C30  No unit receives more than MAX_TRADES_PER_DAY entries on one date, *)
(* and the count of a unit's entries is kept per date, so that a new date  *)
(* starts from zero.                                                       *)
(***************************************************************************)
\* the entries of unit i on day d
C30_EntriesOn(st, i, d) ==
    {k \in DOMAIN st.entered : st.entered[k].unit = i /\ st.entered[k].time.day = d}

C30_Engine(st) ==
    \A i \in UnitIds, d \in Days :
       /\ Cardinality(C30_EntriesOn(st, i, d)) <= MAX_TRADES_PER_DAY
       /\ st.units[i].day_trades[d] = Cardinality(C30_EntriesOn(st, i, d))

C31_Unit(u, v, closes, limit, bars) ==
    /\ 0 <= v.streak /\ v.streak < limit
    /\ 0 <= v.cooldown /\ v.cooldown <= bars
    /\ u.cooldown > 0 => v.cooldown = u.cooldown - 1 /\ closes = {}
    /\ closes = {} => /\ v.streak = u.streak
                      /\ u.cooldown = 0 => v.cooldown = 0
    /\ \A pnl \in closes :
          IF pnl < 0
          THEN IF u.streak + 1 >= limit
               THEN v.streak = 0 /\ v.cooldown = bars
               ELSE v.streak = u.streak + 1 /\ v.cooldown = 0
          ELSE v.streak = 0 /\ v.cooldown = 0

C31_BotTick(old, new) ==
    \A i \in UnitIds :
       C31_Unit(old.units[i], new.units[i],
                {r.pnl : r \in {x \in NewOnes(old.trades, new.trades) : x.trade.unit = i}},
                LOSS_STREAK_LIMIT, COOLDOWN_BARS)

C31_BacktesterTick(old, new) ==
    \A i \in UnitIds :
       C31_Unit(old.units[i], new.units[i],
                {r.pnl : r \in {x \in NewOnes(old.all_trades, new.all_trades) : x.unit = i}},
                config_LOSS_STREAK_MAX, config_COOLDOWN_BARS)

\* C31: in the live Bot, in run_backtest and in the Backtester
C31_LossStreak ==
    [][ /\ C31_BotTick(live, live')
        /\ C31_BotTick(rb, rb')
        /\ C31_BacktesterTick(bt, bt') ]_vars

\* a cooldown started by the second loss in a row is running in both engines
C31_Witness ==
    /\ \E i \in UnitIds : live.units[i].cooldown \in 1 .. (COOLDOWN_BARS - 1)
    /\ \E i \in UnitIds : bt.units[i].cooldown \in 1 .. (config_COOLDOWN_BARS - 1)

(***************************************************************************)
(* C32  The day pnl read by the daily-loss guard of the live Bot is the    *)
(* sum of the units' pnl of that date: once the Bot has processed a bar    *)
(* of date d, port_dpnl[d] equals the sum over the units of day_pnl[d],    *)
(* also in a process started from the state file.                          *)
(***************************************************************************)
C32_UnitsDayPnl(st, d) == SumOver([i \in UnitIds |-> st.units[i].day_pnl[d]], UnitIds)

C32_DayPnlFromUnits ==
    (bar # NoBar /\ live.last_ts = bar.ts) =>
       live.port_dpnl[bar.ts.day] = C32_UnitsDayPnl(live, bar.ts.day)

(***************************************************************************)
(* C33  The take-profit threshold.  On a tick that evaluates a position    *)
(* held for at least MIN_HOLD_BARS whose estimate is above the stop-loss   *)
(* level, the position leaves with reason TP exactly when the estimate is  *)
(* at or above entry_prem * (1 + TP_PCT).                                  *)
(***************************************************************************)
C33_BotTick(old, new, b) ==
    \A i \in Holding(old) :
       LET t0  == old.units[i].trade
           bh  == t0.bars
           cp  == mark_prem(t0.entry_prem, t0.entry_spot, b.spot, t0.opt_type, bh)
           out == {r \in NewOnes(old.trades, new.trades) : r.trade.unit = i}
       IN  (bh >= MIN_HOLD_BARS /\ cp > (t0.entry_prem \div 100) * (100 - SL_PCT))
              => ( (\E r \in out : r.reason = "TP")
                   <=> cp >= (t0.entry_prem \div 100) * (100 + TP_PCT) )

\* the same, on the ticks that are not hard-close ticks
C33_BeforeHardClose ==
    [][ /\ (~ live'.tick.halted /\ ~ live'.tick.eod) => C33_BotTick(live, live', bar')
        /\ ~ rb'.tick.eod => C33_BotTick(rb, rb', bar') ]_vars

\* C33: in the live Bot and in run_backtest
C33_TakeProfitThreshold ==
    [][ /\ ~ live'.tick.halted => C33_BotTick(live, live', bar')
        /\ C33_BotTick(rb, rb', bar') ]_vars

(***************************************************************************)
(* C34  A position is not closed on the bar that opened it; the bar count  *)
(* read on its first exit evaluation, one tick after the entry, is 0, and  *)
(* the count read grows by one per processed tick.                         *)
(***************************************************************************)
\* Bot._exit and run_backtest: the count is the field "bars" of the trade
C34_BotTick(old, new, b, evaluated) ==
    /\ \A r \in NewOnes(old.trades, new.trades) :
          /\ r.trade.entry_time # b.ts
          /\ r.bars_held = old.units[r.trade.unit].trade.bars
    /\ \A e \in NewOnes(old.entered, new.entered) :
          /\ new.units[e.unit].trade.entry_time = b.ts
          /\ new.units[e.unit].trade.bars = 0
    /\ evaluated =>
          \A i \in Holding(old) :
             new.units[i].trade.entry_time = old.units[i].trade.entry_time
                => new.units[i].trade.bars = old.units[i].trade.bars + 1

\* Backtester.run: the count is bar_idx less the bar_idx of the entry
C34_BacktesterTick(old, new, b) ==
    /\ \A r \in NewOnes(old.all_trades, new.all_trades) :
          /\ r.trade.entry_time # b.ts
          /\ r.bars_held = (new.bar_idx - r.trade.bar_idx) - 1
    /\ \A e \in NewOnes(old.entered, new.entered) :
          /\ new.units[e.unit].trade.entry_time = b.ts
          /\ new.units[e.unit].trade.bar_idx = new.bar_idx

\* C34: in the live Bot, in run_backtest and in the Backtester
C34_BarsHeld ==
    [][ /\ C34_BotTick(live, live', bar', ~ live'.tick.halted)
        /\ C34_BotTick(rb, rb', bar', TRUE)
        /\ C34_BacktesterTick(bt, bt', bar') ]_vars

\* the part of C34 about bot.py
C34_BotBarsHeld ==
    [][ /\ C34_BotTick(live, live', bar', ~ live'.tick.halted)
        /\ C34_BotTick(rb, rb', bar', TRUE) ]_vars

(***************************************************************************)
(* C35  The capital of a unit is never negative: the cost of an admitted   *)
(* entry, premium * lot * quantity, is at most the capital of the unit,    *)
(* and the loss of a position is at most its cost.                         *)
(***************************************************************************)
\* the cost of qty lots in paise, rounded up
C35_Cost(ep, lot, qty) == CeilDiv(ep * lot, PUPerPaise) * qty

C35_BotTick(old, new, b) ==
    /\ \A i \in UnitIds : new.units[i].capital >= 0
    /\ \A e \in NewOnes(old.entered, new.entered) :
          C35_Cost(synth_prem(b.spot), LOT_SIZE, e.qty) <= new.units[e.unit].capital
    /\ \A r \in NewOnes(old.trades, new.trades) :
          r.pnl >= MaxLoss(r.trade.entry_prem, r.trade.lot_size * r.trade.qty)

\* C35: in the live Bot and in run_backtest
C35_CapitalNotNegative ==
    [][ C35_BotTick(live, live', bar') /\ C35_BotTick(rb, rb', bar') ]_vars

\* a position lost the whole of its cost, and what is left of the unit's
\* capital no longer pays for a lot at that premium
C35_Witness ==
    \E r \in BotRecords :
       /\ r.pnl = MaxLoss(r.trade.entry_prem, r.trade.lot_size * r.trade.qty)
       /\ live.units[r.trade.unit].capital >= 0
       /\ TooCostly(r.trade.entry_prem, LOT_SIZE, live.units[r.trade.unit].capital)

(***************************************************************************)
(* C36  At most one position is opened per tick: the tick of an engine     *)
(* adds at most one entry, so the number of open positions grows by at     *)
(* most one and never exceeds the number of units.                         *)
(***************************************************************************)
C36_Tick(old_entered, new_entered, old_open, new_open, num_units) ==
    /\ Cardinality(NewOnes(old_entered, new_entered)) <= 1
    /\ Len(new_entered) <= Len(old_entered) + 1
    /\ Cardinality(new_open) <= Cardinality(old_open) + 1
    /\ Cardinality(new_open) <= num_units

\* the units of the Backtester that hold a trade
C36_BacktesterHolding(st) == {i \in UnitIds : st.units[i].trade # BtNoTrade}

\* the part of C36 about one tick, in the live Bot, in run_backtest and in
\* the Backtester
C36_OneEntryPerTick ==
    [][ /\ C36_Tick(live.entered, live'.entered, Holding(live), Holding(live'), NUM_UNITS)
        /\ C36_Tick(rb.entered, rb'.entered, Holding(rb), Holding(rb'), NUM_UNITS)
        /\ C36_Tick(bt.entered, bt'.entered, C36_BacktesterHolding(bt),
                    C36_BacktesterHolding(bt'), config_NUM_UNITS) ]_vars

\* an entry while at least two other units would have accepted the signal,
\* in each engine
C36_Witness ==
    /\ \E k \in DOMAIN live.entered :
          /\ live.entered[k].time = bar.ts
          /\ Cardinality({i \in UnitIds : Unit_free(live.units[i])}) >= 2
    /\ \E k \in DOMAIN bt.entered :
          /\ bt.entered[k].time = bar.ts
          /\ Cardinality(UnitIds \ C36_BacktesterHolding(bt)) >= 2

\* C36 for the live process: at most one position is opened per bar, that
\* is, no two entries of the live Bot carry the time of the same bar
C36_OneEntryPerBar ==
    \A j, k \in DOMAIN live.entered :
       live.entered[j].time = live.entered[k].time => j = k

(***************************************************************************)
(* C37: what a tick of the live Bot changes while the monthly guard is     *)
(* tripped                                                                 *)
(***************************************************************************)
\* the unit after the tick is the unit before it, one bar further in its
\* cooldown
C37_UnitFrozen(u, v) == v = [u EXCEPT !.cooldown = IF @ > 0 THEN @ - 1 ELSE @]

\* the tick that is taken returns at the monthly guard
C37_HaltedTick == live'.bar_idx = live.bar_idx + 1 /\ live'.tick.halted

\* the last-bar timestamp is the bar's; capitals, positions with their bars
\* and peak, counts, pointer, month baseline, trade records and state file
\* are the ones of before
C37_Counters ==
    /\ live'.last_ts = bar'.ts
    /\ \A i \in UnitIds : C37_UnitFrozen(live.units[i], live'.units[i])
    /\ live'.rr = live.rr
    /\ live'.month_cap = live.month_cap
    /\ live'.trades = live.trades
    /\ live'.entered = live.entered
    /\ disk' = disk

\* a tick that follows a halted tick and is not halted is the first tick
\* of a month, and the baseline is the total capital
C37_HaltEnds ==
    (live.tick.halted /\ live'.bar_idx = live.bar_idx + 1 /\ ~ live'.tick.halted)
        => /\ MonthOf(bar'.ts.day) # MonthOf(live.last_ts.day)
           /\ live'.month_cap = TotalCap(live)

\* the running day P&L is reset on the first tick of a day and kept on
\* every other tick
C37_DayFigures ==
    live'.port_dpnl = IF live.last_ts.day # bar'.ts.day
                      THEN [d \in Days |-> 0] ELSE live.port_dpnl

\* C37 as stated: a halted tick changes only the bar index, the last-bar
\* timestamp and the cooldown counters, nothing is persisted, and the halt
\* ends only at a month rollover, which re-baselines month_cap
C37_OnlyCounters ==
    [][ /\ C37_HaltedTick => (C37_Counters /\ live'.port_dpnl = live.port_dpnl)
        /\ C37_HaltEnds ]_vars

\* C37 amended: a halted tick changes only the bar index, the last-bar
\* timestamp, the cooldown counters and, on the first tick of a day, the
\* running day P&L, which is reset; nothing is persisted, and the halt
\* ends only at a month rollover, which re-baselines month_cap
C37_HaltedFrame ==
    [][ /\ C37_HaltedTick => (C37_Counters /\ C37_DayFigures)
        /\ C37_HaltEnds ]_vars

\* a halted tick on the first bar of a day of the same month, with a
\* position open
C37_Witness ==
    /\ live.tick.halted
    /\ \E i \in UnitIds : HasTrade(live.units[i])
    /\ \E k \in DOMAIN live.trades :
          /\ live.trades[k].exit_time.day # bar.ts.day
          /\ MonthOf(live.trades[k].exit_time.day) = MonthOf(bar.ts.day)

(***************************************************************************)
(* C38: backtests started from the dashboard while the live Bot runs       *)
(***************************************************************************)
\* run_backtest alone, from fresh units, over the first n rows of df
RECURSIVE C38_Alone(_, _)
C38_Alone(df, n) ==
    IF n = 0
    THEN [units |-> [i \in UnitIds |-> Unit(i)], rr |-> 0, bar_idx |-> 0,
          port_dpnl |-> [d \in Days |-> 0], trades |-> << >>, entered |-> << >>,
          tick |-> NoTick]
    ELSE CHOOSE x \in {run_backtest_bar(st, df[n]) : st \in {C38_Alone(df, n - 1)}} : TRUE

\* every thread stands where its run_backtest would stand had it run
\* alone over its frame from fresh units
C38_OwnUnits ==
    \A t \in DashThreads :
       dash.thr[t].pc # "idle"
          => dash.thr[t].st = C38_Alone(dash.thr[t].df, dash.thr[t].i - 1)

\* the Bot stands where a Bot fed the same bars without a dashboard stands
C38_BotAlone ==
    /\ live.units = ref.units
    /\ live.rr = ref.rr
    /\ live.month_cap = ref.month_cap
    /\ bar # NoBar => disk = save_state(ref.units, ref.rr, ref.month_cap)

\* C38: in every interleaving of the Bot's ticks with the steps of the
\* backtest threads, a step of a backtest leaves the Bot's units, rotating
\* pointer, month baseline and the state file as they are, every backtest
\* works on its own fresh units, and no backtest depends on another
C38_BacktestIsolated ==
    /\ [](C38_OwnUnits /\ C38_BotAlone)
    /\ [][dash' # dash => (live' = live /\ disk' = disk)]_vars

\* two backtests in their loops at different rows, each with a position
\* taken, while the Bot holds a position of its own taken after the first
\* backtest had started
C38_Witness ==
    /\ \E i \in UnitIds : HasTrade(live.units[i])
    /\ \E t, w \in DashThreads :
          /\ dash.thr[t].pc = "loop" /\ dash.thr[w].pc = "loop"
          /\ dash.thr[t].i > dash.thr[w].i /\ dash.thr[w].i > 1
          /\ dash.thr[t].st.trades # << >>
          /\ dash.thr[t].st.units # live.units
          /\ dash.thr[w].st.units # dash.thr[t].st.units

(***************************************************************************)
(* C39: the snapshot of a unit and its reload                              *)
(***************************************************************************)
\* from_dict(to_dict(u)) is u: uid, capital, trade, streak, cooldown,
\* counts, last entry bar, per-date counts and pnl
C39_Restored(u) == Unit_from_dict(Unit_to_dict(u)) = u

\* a new process has loaded the saved state
C39_Reloaded == run.log # << >>

\* C39: whatever the capital of a unit, a Bot loaded from the saved state
\* has the units (uid, capital, trade, streak, cooldown, counts, last entry
\* bar, per-date pnl) and the total capital of the Bot that saved it
C39_RoundTrip ==
    C39_Reloaded => /\ \A i \in UnitIds : live.units[i] = ref.units[i]
                    /\ TotalCap(live) = TotalCap(ref)

\* the same for the Bots none of whose units has a capital of exactly 0,
\* and from_dict(to_dict(u)) = u for their units
C39_RoundTripAboveZero ==
    (\A i \in UnitIds : ref.units[i].capital # 0)
        => /\ \A i \in UnitIds : C39_Restored(ref.units[i])
           /\ C39_RoundTrip

====
